---- MODULE Spec2Model ----
(***************************************************************************)
(* A model of germinate: the archive tables built by Germinator's parsers, *)
(* the seed structure, seed planting, and the germination engine (grow,    *)
(* _add_package, _add_dependency_tree, promotion, rescue, add_extras).     *)
(*                                                                         *)
(* Strings stand for package, source and seed names.  Version strings are  *)
(* modelled as naturals ordered by apt_pkg.version_compare.  A dependency  *)
(* atom is the triple <<name, version, operator>> that apt_pkg returns; a  *)
(* dependency field is a sequence of alternative groups, each a sequence   *)
(* of atoms.                                                               *)
(***************************************************************************)
EXTENDS Integers, Sequences, FiniteSets, TLC

VARIABLES
    packages,      \* Germinator._packages: name -> record
    packagetype,   \* Germinator._packagetype: name -> "deb" | "udeb"
    provides,      \* Germinator._provides: virtual name -> list of providers
    sources,       \* Germinator._sources: name -> record
    ingested,      \* history of the sections handed to the parsers
    hints,         \* Germinator._hints: package -> seed name
    seedbase,      \* the seed base: branch -> lines of its STRUCTURE file
    parsed,        \* the SingleSeedStructure of the branch read
    structure,     \* the SeedStructure: names, inherit, features, seed texts
    planted,       \* the structures planted earlier, with their outputs
    seeds,         \* Germinator._seeds: full seed name -> GerminatedSeed
    output,        \* Germinator._output[structure]: GerminatedSeedStructure
    errors,        \* what logging.error has reported
    setorder,      \* iteration order of Python sets and dicts in this run
    pc             \* position of the driver

vars == <<packages, packagetype, provides, sources, ingested, hints,
          seedbase, parsed, structure, planted, seeds, output, errors,
          setorder, pc>>

basevars == <<seedbase, parsed>>

archvars == <<packages, packagetype, provides, sources>>

-----------------------------------------------------------------------------
(* Bounds of the model.                                                    *)

MaxVersion == 2
MaxIngest == 3
MaxExtraLines == 1
MaxFileLines == 3

-----------------------------------------------------------------------------
(* Generic helpers for Python lists, sets and dicts.                       *)

SeqToSet(s) == {s[i] : i \in 1..Len(s)}

InSeq(x, s) == \E i \in 1..Len(s) : s[i] = x

\* list.remove(x): drop the first occurrence of x
ListRemove(s, x) ==
    LET i == CHOOSE k \in 1..Len(s) : s[k] = x /\ \A j \in 1..(k - 1) : s[j] # x
    IN SubSeq(s, 1, i - 1) \o SubSeq(s, i + 1, Len(s))

Reverse(s) == [i \in 1..Len(s) |-> s[Len(s) + 1 - i]]

\* dict[key] = value
DictSet(d, k, v) == [x \in DOMAIN d \cup {k} |-> IF x = k THEN v ELSE d[x]]

EmptyDict == [x \in {} |-> {}]

\* dict.update(other)
DictUpdate(d, e) ==
    [x \in DOMAIN d \cup DOMAIN e |-> IF x \in DOMAIN e THEN e[x] ELSE d[x]]

\* str.startswith, str.endswith and "in" for a one-character string c
startswith(w, c) == Len(w) > 0 /\ SubSeq(w, 1, 1) = c

endswith(w, c) == Len(w) > 0 /\ SubSeq(w, Len(w), Len(w)) = c

Contains(w, c) == \E i \in 1..Len(w) : SubSeq(w, i, i) = c

-----------------------------------------------------------------------------
(* The archive: Germinator._parse_package and Germinator._parse_source.    *)

\* apt_pkg.version_compare on the modelled versions
version_compare(a, b) == IF a < b THEN -1 ELSE IF a > b THEN 1 ELSE 0

\* the loop "for prov in provides" of _parse_package
RECURSIVE AddProvides(_, _, _, _, _)
AddProvides(prov, pkgs, provlist, i, pkg) ==
    IF i > Len(provlist) THEN prov
    ELSE LET v == provlist[i]
             start == IF v \in DOMAIN prov THEN prov[v]
                      ELSE IF v \in pkgs THEN <<v>> ELSE <<>>
         IN AddProvides(DictSet(prov, v, Append(start, pkg)), pkgs,
                        provlist, i + 1, pkg)

\* section.get("Source", pkg); "" stands for an absent field
SourceOf(section) ==
    IF section.Source = "" THEN section.Package ELSE section.Source

\* _parse_package, were an equal version to replace the retained record
_parse_package_replacing_equal(arch, section, pkgtype) ==
    LET pkg == section.Package
        ver == section.Version
    IN IF pkg \in DOMAIN arch.packages
          /\ version_compare(arch.packages[pkg].Version, ver) > 0
       THEN arch
       ELSE LET rec == [Section |-> section.Section,
                        Version |-> ver,
                        PreDepends |-> section.PreDepends,
                        Depends |-> section.Depends,
                        Recommends |-> section.Recommends,
                        Source |-> SourceOf(section),
                        Provides |-> section.Provides,
                        KernelVersion |-> section.KernelVersion]
                pkgs1 == DictSet(arch.packages, pkg, rec)
                prov1 == AddProvides(arch.provides, DOMAIN pkgs1,
                                     section.Provides, 1, pkg)
                prov2 == IF pkg \in DOMAIN prov1
                         THEN DictSet(prov1, pkg, Append(prov1[pkg], pkg))
                         ELSE prov1
            IN [arch EXCEPT !.packages = pkgs1,
                            !.packagetype = DictSet(arch.packagetype, pkg, pkgtype),
                            !.provides = prov2]

\* Germinator._parse_package
_parse_package(arch, section, pkgtype) ==
    LET pkg == section.Package
        ver == section.Version
    IN IF pkg \in DOMAIN arch.packages
          /\ version_compare(arch.packages[pkg].Version, ver) >= 0
       THEN arch
       ELSE LET rec == [Section |-> section.Section,
                        Version |-> ver,
                        PreDepends |-> section.PreDepends,
                        Depends |-> section.Depends,
                        Recommends |-> section.Recommends,
                        Source |-> SourceOf(section),
                        Provides |-> section.Provides,
                        KernelVersion |-> section.KernelVersion]
                pkgs1 == DictSet(arch.packages, pkg, rec)
                prov1 == AddProvides(arch.provides, DOMAIN pkgs1,
                                     section.Provides, 1, pkg)
                prov2 == IF pkg \in DOMAIN prov1
                         THEN DictSet(prov1, pkg, Append(prov1[pkg], pkg))
                         ELSE prov1
            IN [arch EXCEPT !.packages = pkgs1,
                            !.packagetype = DictSet(arch.packagetype, pkg, pkgtype),
                            !.provides = prov2]

\* Germinator._parse_source
_parse_source(arch, section) ==
    LET src == section.Package
        ver == section.Version
    IN IF src \in DOMAIN arch.sources
          /\ version_compare(arch.sources[src].Version, ver) >= 0
       THEN arch
       ELSE [arch EXCEPT !.sources =
                DictSet(arch.sources, src,
                        [Version |-> ver,
                         BuildDepends |-> section.BuildDepends,
                         BuildDependsIndep |-> section.BuildDependsIndep,
                         Binaries |-> section.Binaries])]

\* the body of the loop of parse_archive: hand one section to the parser
\* of its index type
parse_archive(arch, s) ==
    IF s.indextype = "PACKAGES" THEN _parse_package(arch, s.section, "deb")
    ELSE IF s.indextype = "SOURCES" THEN _parse_source(arch, s.section)
    ELSE _parse_package(arch, s.section, "udeb")

-----------------------------------------------------------------------------
(* The seed structure (germinate/seeds.py).                                *)

\* Ordering of names used by sorted() and by fnmatch, which work on the
\* characters of a string; the model lists the names it uses, sorted.
SortedNames ==
    <<"a", "bad", "debhelper", "exim4", "foo", "foo-tools", "hello",
      "hello-dependency", "installer-x", "kmod", "kmod-a", "kmod-b",
      "libfoo", "mail-transport-agent", "mailx", "ping", "ping-dbg", "pong",
      "pong-dbg", "postfix", "r", "top",
      "v", "x", "x-data", "y">>

sorted(S) == SelectSeq(SortedNames, LAMBDA n : n \in S)

\* Iteration over a Python set or dict: some order, fixed for the run.
IterSet(S) == IF setorder = "asc" THEN sorted(S) ELSE Reverse(sorted(S))

\* A structure file is the list of its lines, and a line is the list of its
\* words, as line.strip().split() gives them; a blank line has no words.

NoSingle ==
    [seed_order |-> <<>>, inherit |-> EmptyDict, branches |-> <<>>,
     lines |-> <<>>, features |-> {}, errors |-> {}, raised |-> FALSE]

\* the body of that loop, were it to read #-lines like any other line
ParseLine_no_comment(s, words) ==
    IF words = <<>> THEN s
    ELSE IF endswith(words[1], ":")
    THEN LET seed == SubSeq(words[1], 1, Len(words[1]) - 1)
         IN IF Contains(seed, "/") THEN [s EXCEPT !.raised = TRUE]
            ELSE [s EXCEPT !.seed_order = Append(@, seed),
                           !.inherit = DictSet(@, seed, Tail(words)),
                           !.lines = Append(@, words)]
    ELSE IF words[1] = "include"
    THEN [s EXCEPT !.branches = @ \o Tail(words)]
    ELSE IF words[1] = "feature"
    THEN [s EXCEPT !.features = @ \cup SeqToSet(Tail(words))]
    ELSE [s EXCEPT !.errors =
             @ \cup {<<"Unparseable seed structure entry", words>>}]

\* the body of the loop "for line in f" of SingleSeedStructure.__init__;
\* errors holds what logging.error reports, raised stands for SeedError
ParseLine(s, words) ==
    IF words = <<>> THEN s
    ELSE IF startswith(words[1], "#") THEN s
    ELSE IF endswith(words[1], ":")
    THEN LET seed == SubSeq(words[1], 1, Len(words[1]) - 1)
         IN IF Contains(seed, "/") THEN [s EXCEPT !.raised = TRUE]
            ELSE [s EXCEPT !.seed_order = Append(@, seed),
                           !.inherit = DictSet(@, seed, Tail(words)),
                           !.lines = Append(@, words)]
    ELSE IF words[1] = "include"
    THEN [s EXCEPT !.branches = @ \o Tail(words)]
    ELSE IF words[1] = "feature"
    THEN [s EXCEPT !.features = @ \cup SeqToSet(Tail(words))]
    ELSE [s EXCEPT !.errors =
             @ \cup {<<"Unparseable seed structure entry", words>>}]

RECURSIVE ParseLines(_, _, _)
ParseLines(s, f, i) ==
    IF i > Len(f) \/ s.raised THEN s
    ELSE ParseLines(ParseLine(s, f[i]), f, i + 1)

\* SingleSeedStructure.__init__
SingleSeedStructure(branch, f) ==
    ParseLines([NoSingle EXCEPT !.branches = <<branch>>], f, 1)

\* line.split()[0][:-1]
LineName(line) == SubSeq(line[1], 1, Len(line[1]) - 1)

\* the loops of _parse that move a structure line to the end of
\* all_structure, deleting the first line of the same seed name
MergeLine(all_structure, line) ==
    LET hits == {i \in 1..Len(all_structure) :
                    LineName(all_structure[i]) = LineName(line)}
    IN IF hits = {} THEN Append(all_structure, line)
       ELSE LET i == CHOOSE k \in hits : \A j \in hits : k <= j
            IN Append(SubSeq(all_structure, 1, i - 1)
                      \o SubSeq(all_structure, i + 1, Len(all_structure)),
                      line)

RECURSIVE MergeLines(_, _, _)
MergeLines(all_structure, lines, i) ==
    IF i > Len(lines) THEN all_structure
    ELSE MergeLines(MergeLine(all_structure, lines[i]), lines, i + 1)

\* the loops "if branch not in all_branches: all_branches.append(branch)"
RECURSIVE AppendNew(_, _, _)
AppendNew(all_branches, branches, i) ==
    IF i > Len(branches) THEN all_branches
    ELSE AppendNew(IF InSeq(branches[i], all_branches) THEN all_branches
                   ELSE Append(all_branches, branches[i]),
                   branches, i + 1)

RECURSIVE _parse(_, _, _, _)
RECURSIVE ParseChildren(_, _, _, _)

\* the loop "for child_branch in structure.branches" of _parse; acc holds
\* the all_* lists, got_branches and self.features
ParseChildren(seed_bases, branches, i, acc) ==
    IF i > Len(branches) \/ acc.raised THEN acc
    ELSE IF branches[i] \in acc.got THEN
        ParseChildren(seed_bases, branches, i + 1, acc)
    ELSE LET child == _parse(seed_bases, branches[i], acc.got, acc.features)
         IN IF child.raised THEN [acc EXCEPT !.raised = TRUE]
            ELSE ParseChildren(seed_bases, branches, i + 1,
                    [seed_order |-> acc.seed_order \o child.seed_order,
                     inherit |-> DictUpdate(acc.inherit, child.inherit),
                     branches |-> AppendNew(acc.branches, child.branches, 1),
                     lines |-> MergeLines(acc.lines, child.lines, 1),
                     got |-> child.got, features |-> child.features,
                     errors |-> acc.errors \cup child.errors,
                     raised |-> FALSE])

\* SeedStructure._parse; seed_bases maps each branch that has a STRUCTURE
\* file to that file, and opening a missing one raises SeedError
_parse(seed_bases, branch, got_branches, features) ==
    LET failed == [seed_order |-> <<>>, inherit |-> EmptyDict,
                   branches |-> <<>>, lines |-> <<>>, got |-> got_branches,
                   features |-> features, errors |-> {}, raised |-> TRUE]
    IN IF branch \notin DOMAIN seed_bases THEN failed
       ELSE LET single == SingleSeedStructure(branch, seed_bases[branch])
                kids == ParseChildren(seed_bases, single.branches, 1,
                           [failed EXCEPT !.got = got_branches \cup {branch},
                                          !.errors = single.errors,
                                          !.raised = FALSE])
            IN IF single.raised THEN failed
               ELSE IF kids.raised THEN kids
               ELSE [seed_order |-> kids.seed_order \o single.seed_order,
                     inherit |-> DictUpdate(kids.inherit, single.inherit),
                     branches |-> Reverse(AppendNew(kids.branches,
                                                    single.branches, 1)),
                     lines |-> MergeLines(kids.lines, single.lines, 1),
                     got |-> kids.got,
                     features |-> kids.features \cup single.features,
                     errors |-> kids.errors, raised |-> FALSE]

\* germinate.tsort.topo_sort: every name after the names it inherits from,
\* otherwise in the order of the structure file.
RECURSIVE topo_sort(_, _, _)
topo_sort(order, inh, done) ==
    LET ready == {i \in 1..Len(order) :
                    /\ ~InSeq(order[i], done)
                    /\ \A p \in SeqToSet(inh[order[i]]) : InSeq(p, done)}
    IN IF ready = {} THEN done
       ELSE LET i == CHOOSE k \in ready : \A j \in ready : k <= j
            IN topo_sort(order, inh, Append(done, order[i]))

\* the body of that loop, were it to add the inherited seed alone
RECURSIVE ExpandOne_direct(_, _, _, _)
ExpandOne_direct(inh, parents, i, acc) ==
    IF i > Len(parents) THEN acc
    ELSE ExpandOne_direct(inh, parents, i + 1,
                          IF InSeq(parents[i], acc) THEN acc
                          ELSE Append(acc, parents[i]))

\* the body of the loop "for inheritee in self.inherit[name]"
RECURSIVE ExpandOne(_, _, _, _)
ExpandOne(inh, parents, i, acc) ==
    IF i > Len(parents) THEN acc
    ELSE LET inheritee == parents[i]
             fresh == SelectSeq(inh[inheritee], LAMBDA e : ~InSeq(e, acc))
             acc1 == acc \o fresh
             acc2 == IF InSeq(inheritee, acc1) THEN acc1
                     ELSE Append(acc1, inheritee)
         IN ExpandOne(inh, parents, i + 1, acc2)

RECURSIVE ExpandAll(_, _, _)
ExpandAll(inh, names, i) ==
    IF i > Len(names) THEN inh
    ELSE ExpandAll([inh EXCEPT ![names[i]] = ExpandOne(inh, inh[names[i]], 1, <<>>)],
                   names, i + 1)

\* SeedStructure._expand_inheritance
_expand_inheritance(struct) ==
    LET names == topo_sort(struct.seed_order, struct.inherit, <<>>)
    IN [struct EXCEPT !.original_inherit = struct.inherit,
                      !.names = names,
                      !.inherit = ExpandAll(struct.inherit, names, 1)]

\* the body of the loop "for name in seeds" of SeedStructure.limit
LimitOne(struct, names, name) ==
    LET fresh == SelectSeq(struct.inherit[name], LAMBDA i : ~InSeq(i, names))
        names1 == names \o fresh
    IN IF InSeq(name, names1) THEN names1 ELSE Append(names1, name)

RECURSIVE LimitLoop(_, _, _, _)
LimitLoop(struct, wanted, i, names) ==
    IF i > Len(wanted) THEN names
    ELSE LimitLoop(struct, wanted, i + 1, LimitOne(struct, names, wanted[i]))

\* SeedStructure.limit
limit(struct, wanted) ==
    [struct EXCEPT !.names = LimitLoop(struct, wanted, 1, <<>>)]

\* SeedStructure.add_extra
add_extra(struct) ==
    IF InSeq("extra", struct.names) THEN struct
    ELSE LET names == Append(struct.names, "extra")
         IN [struct EXCEPT !.names = names,
                           !.inherit = DictSet(struct.inherit, "extra", names)]

inner_seeds(struct, seedname) == Append(struct.inherit[seedname], seedname)

strictly_outer_seeds(struct, seedname) ==
    SelectSeq(struct.names, LAMBDA s : InSeq(seedname, struct.inherit[s]))

\* outer_seeds, were it to leave out the seeds that inherit from the seed
outer_seeds_self(struct, seedname) == <<seedname>>

\* SeedStructure.outer_seeds
outer_seeds(struct, seedname) ==
    <<seedname>> \o strictly_outer_seeds(struct, seedname)

\* SeedStructure.supported: the last seed of the merged seed order
supported(struct) == struct.seed_order[Len(struct.seed_order)]

-----------------------------------------------------------------------------
(* Germinator: seeds and the wrappers around the structure.                *)

\* '%s/%s' % (branch, seedname)
_make_seed_name(branch, seedname) == branch \o "/" \o seedname

\* GerminatedSeed.__init__; the structure is named by its branch
GerminatedSeed(name, branch) ==
    [name |-> name, branch |-> branch,
     entries |-> <<>>, features |-> {}, recommends_entries |-> <<>>,
     close_seeds |-> {}, depends |-> {}, build_depends |-> {},
     sourcepkgs |-> {}, build_sourcepkgs |-> {}, build |-> {},
     not_build |-> {}, build_srcs |-> {}, not_build_srcs |-> {},
     reasons |-> EmptyDict, blacklist |-> {}, blacklist_seen |-> FALSE,
     di_kernel_versions |-> {}, includes |-> EmptyDict,
     excludes |-> EmptyDict, grown |-> FALSE]

\* GerminatedSeedStructure.__init__
GerminatedSeedStructure ==
    [seednames |-> <<>>, pkgprovides |-> EmptyDict, all |-> {},
     all_srcs |-> {}, all_reasons |-> EmptyDict]

MapKeys(st, seednames) ==
    [i \in 1..Len(seednames) |-> _make_seed_name(st.structure.branch, seednames[i])]

\* the engine works on st = [structure, seeds, output, errors, raised];
\* a seed is named by its key sk in st.seeds
_inner_seeds(st, sk) ==
    MapKeys(st, inner_seeds(st.structure, st.seeds[sk].name))

_strictly_outer_seeds(st, sk) ==
    MapKeys(st, strictly_outer_seeds(st.structure, st.seeds[sk].name))

_outer_seeds(st, sk) ==
    MapKeys(st, outer_seeds(st.structure, st.seeds[sk].name))

\* get_seed(structure, structure.supported) with its KeyError caught: a
\* list with the key of the supported seed, empty for None
GetSupported(st) ==
    LET key == _make_seed_name(st.structure.branch, supported(st.structure))
    IN IF key \in DOMAIN st.seeds THEN <<key>> ELSE <<>>

\* Germinator._supported
_supported(st, sk) == GetSupported(st)

\* fnmatch: the names each shell pattern of the model matches
GlobMatches ==
    [x \in {"lib*", "kmod-*", "*"} |->
        IF x = "lib*" THEN {"libfoo"}
        ELSE IF x = "kmod-*" THEN {"kmod-a", "kmod-b"}
        ELSE SeqToSet(SortedNames)]

_filter_packages(pkgset, pattern) ==
    IF pattern \in DOMAIN GlobMatches
    THEN sorted(pkgset \cap GlobMatches[pattern])
    ELSE IF pattern \in pkgset THEN <<pattern>> ELSE <<>>

\* _substitute_seed_vars for a name without ${...}: re.split leaves one
\* piece and the result is the one-element list of that name
_substitute_seed_vars(substvars, pkg) == <<pkg>>

\* _already_seeded, were it to look at the seed itself only
_already_seeded_here(st, sk, pkg) ==
    \/ InSeq(pkg, st.seeds[sk].entries)
    \/ InSeq(pkg, st.seeds[sk].recommends_entries)

\* Germinator._already_seeded
_already_seeded(st, sk, pkg) ==
    \E i \in SeqToSet(_inner_seeds(st, sk)) :
        \/ InSeq(pkg, st.seeds[i].entries)
        \/ InSeq(pkg, st.seeds[i].recommends_entries)

_is_pruned(st, sk, pkg) ==
    LET kv == st.seeds[sk].di_kernel_versions
    IN IF kv = {} THEN FALSE
       ELSE LET kernver == packages[pkg].KernelVersion
            IN kernver # "" /\ kernver \notin kv

LogError(st, e) == [st EXCEPT !.errors = @ \cup {e}]

-----------------------------------------------------------------------------
(* The germination engine (germinate/germinator.py).                       *)

\* Germinator._weed_blacklist; returns the state and the white list
_weed_blacklist(st, pkgs, sk, build_tree, why) ==
    LET outerseeds == IF build_tree THEN _supported(st, sk)
                      ELSE _outer_seeds(st, sk)
        hits(pkg) == {i \in 1..Len(outerseeds) :
                        pkg \in st.seeds[outerseeds[i]].blacklist}
        first(pkg) == outerseeds[CHOOSE i \in hits(pkg) :
                                    \A j \in hits(pkg) : i <= j]
        black == {pkg \in SeqToSet(pkgs) : hits(pkg) # {}}
    IN [st |-> [st EXCEPT
                  !.errors = @ \cup
                      {<<"blacklisted", pkg, st.seeds[first(pkg)].name,
                         st.seeds[sk].name>> : pkg \in black},
                  !.seeds[sk].blacklist_seen = @ \/ black # {}],
        white |-> SelectSeq(pkgs, LAMBDA pkg : pkg \notin black)]

\* _allowed_dependency, were it not to look at the package types
_allowed_dependency_any_kind(st, pkg, depend, sk, build_depend) ==
    IF depend \notin DOMAIN packages THEN FALSE
    ELSE ~_is_pruned(st, sk, depend)

\* Germinator._allowed_dependency
_allowed_dependency(st, pkg, depend, sk, build_depend) ==
    IF depend \notin DOMAIN packages THEN FALSE
    ELSE IF _is_pruned(st, sk, depend) THEN FALSE
    ELSE IF build_depend THEN packagetype[depend] = "deb"
    ELSE packagetype[pkg] = packagetype[depend]

_allowed_virtual_dependency(pkg, deptype) ==
    IF pkg \in DOMAIN packagetype /\ packagetype[pkg] = "udeb" THEN TRUE
    ELSE deptype = ""

_check_versioned_dependency(depname, depver, deptype) ==
    IF depname \notin DOMAIN packages THEN FALSE
    ELSE IF deptype = "" THEN TRUE
    ELSE LET compare == version_compare(packages[depname].Version, depver)
         IN CASE deptype = "<=" -> compare <= 0
              [] deptype = ">=" -> compare >= 0
              [] deptype = "<" -> compare < 0
              [] deptype = ">" -> compare > 0
              [] deptype = "=" -> compare = 0
              [] deptype = "!=" -> compare # 0
              [] OTHER -> FALSE

_follow_recommends(st, sk) ==
    IF "follow-recommends" \in st.seeds[sk].features THEN TRUE
    ELSE IF "no-follow-recommends" \in st.seeds[sk].features THEN FALSE
    ELSE "follow-recommends" \in st.structure.features

\* the providers of a virtual name that may satisfy a dependency of pkg
RealList(st, sk, pkg, depname, build_depend) ==
    SelectSeq(provides[depname],
              LAMBDA d : d \in DOMAIN packages
                         /\ _allowed_dependency(st, pkg, d, sk, build_depend))

\* _already_satisfied, were it to look at the seed itself only
_already_satisfied_own(st, sk, pkg, depend, build_depend, with_build) ==
    LET depname == depend[1]
        depver == depend[2]
        deptype == depend[3]
        known == \/ (_allowed_virtual_dependency(pkg, deptype)
                     /\ depname \in DOMAIN provides)
                 \/ (_check_versioned_dependency(depname, depver, deptype)
                     /\ _allowed_dependency(st, pkg, depname, sk, build_depend))
        trylist == IF _allowed_virtual_dependency(pkg, deptype)
                      /\ depname \in DOMAIN provides
                   THEN RealList(st, sk, pkg, depname, build_depend)
                   ELSE <<depname>>
    IN /\ known
       /\ \E t \in 1..Len(trylist) :
            LET trydep == trylist[t]
            IN \/ \E i \in {sk} :
                    IF with_build THEN trydep \in st.seeds[i].build
                    ELSE trydep \in st.seeds[i].not_build
               \/ InSeq(trydep, st.seeds[sk].entries)
               \/ InSeq(trydep, st.seeds[sk].recommends_entries)

\* Germinator._already_satisfied
_already_satisfied(st, sk, pkg, depend, build_depend, with_build) ==
    LET depname == depend[1]
        depver == depend[2]
        deptype == depend[3]
        known == \/ (_allowed_virtual_dependency(pkg, deptype)
                     /\ depname \in DOMAIN provides)
                 \/ (_check_versioned_dependency(depname, depver, deptype)
                     /\ _allowed_dependency(st, pkg, depname, sk, build_depend))
        trylist == IF _allowed_virtual_dependency(pkg, deptype)
                      /\ depname \in DOMAIN provides
                   THEN RealList(st, sk, pkg, depname, build_depend)
                   ELSE <<depname>>
    IN /\ known
       /\ \E t \in 1..Len(trylist) :
            LET trydep == trylist[t]
            IN \/ \E i \in SeqToSet(_inner_seeds(st, sk)) :
                    IF with_build THEN trydep \in st.seeds[i].build
                    ELSE trydep \in st.seeds[i].not_build
               \/ InSeq(trydep, st.seeds[sk].entries)
               \/ InSeq(trydep, st.seeds[sk].recommends_entries)

\* _remember_why, were a reason of equal priority to replace the old one
_remember_why_latest(reasons, pkg, why, build_tree, recommends) ==
    IF pkg \in DOMAIN reasons
       /\ LET old_build_tree == reasons[pkg][2]
              old_recommends == reasons[pkg][3]
          IN \/ (~old_build_tree /\ build_tree)
             \/ (old_build_tree = build_tree
                 /\ (~old_recommends /\ recommends))
    THEN reasons
    ELSE DictSet(reasons, pkg, <<why, build_tree, recommends>>)

\* Germinator._remember_why
_remember_why(reasons, pkg, why, build_tree, recommends) ==
    IF pkg \in DOMAIN reasons
       /\ LET old_build_tree == reasons[pkg][2]
              old_recommends == reasons[pkg][3]
          IN \/ (~old_build_tree /\ build_tree)
             \/ (old_build_tree = build_tree
                 /\ (~old_recommends \/ recommends))
    THEN reasons
    ELSE DictSet(reasons, pkg, <<why, build_tree, recommends>>)

\* A method call of the engine: Call(method, args) applies the operator
\* that models the method to the argument list.  The methods of the engine
\* call one another through it.
RECURSIVE Call(_, _)
RECURSIVE TreeLoop(_, _, _, _, _, _, _, _, _)
RECURSIVE PromoteLoop(_, _, _, _, _, _, _, _, _)
RECURSIVE NewLoop(_, _, _, _, _, _, _, _, _)
RECURSIVE AddPackages(_, _, _, _, _, _, _, _)

\* the loop "for dep in dependlist: self._add_package(...)"
AddPackages(st, sk, deps, i, why, second_class, build_tree, recommends) ==
    IF i > Len(deps) THEN st
    ELSE AddPackages(Call("_add_package", <<st, sk, deps[i], why, second_class,
                                            build_tree, recommends>>),
                     sk, deps, i + 1, why, second_class, build_tree, recommends)

\* Germinator._add_dependency; returns the state and the return value.
\* The call of _add_package passes build_tree, second_class, recommends
\* positionally to the parameters second_class, build_tree, recommends.
_add_dependency(st, sk, pkg, dependlist, build_depend, second_class, build_tree, recommends) ==
    LET why == IF build_tree /\ build_depend
               THEN <<"Build-Depend", packages[pkg].Source>>
               ELSE IF recommends THEN <<"Recommends", pkg>>
               ELSE <<"Depends", pkg>>
        weeded == _weed_blacklist(st, dependlist, sk, build_tree, why)
        white == weeded.white
        st1 == IF build_tree
               THEN [weeded.st EXCEPT !.seeds[sk].build_depends = @ \cup SeqToSet(white)]
               ELSE [weeded.st EXCEPT !.seeds[sk].depends = @ \cup SeqToSet(white)]
    IN IF white = <<>> THEN [st |-> weeded.st, ret |-> FALSE]
       ELSE [st |-> Call("AddPackages", <<st1, sk, white, 1, why, build_tree,
                                          second_class, recommends>>),
             ret |-> TRUE]

\* _promote_dependency, were it to take the package from the lesser seed
\* without adding it
_promote_dependency_dropping(st, sk, pkg, depend, close, build_depend, second_class, build_tree, recommends) ==
    LET depname == depend[1]
        depver == depend[2]
        deptype == depend[3]
        direct == /\ _check_versioned_dependency(depname, depver, deptype)
                  /\ _allowed_dependency(st, pkg, depname, sk, build_depend)
        virtual == /\ _allowed_virtual_dependency(pkg, deptype)
                   /\ depname \in DOMAIN provides
        trylist == IF direct THEN <<depname>>
                   ELSE IF virtual
                   THEN RealList(st, sk, pkg, depname, build_depend)
                   ELSE <<>>
        outer == _strictly_outer_seeds(st, sk)
        lesserseeds == IF close
                       THEN SelectSeq(outer, LAMBDA l :
                                st.seeds[sk].name \in st.seeds[l].close_seeds)
                       ELSE outer
        listed(trydep, l) == \/ InSeq(trydep, st.seeds[l].entries)
                             \/ InSeq(trydep, st.seeds[l].recommends_entries)
        found == {t \in 1..Len(trylist) :
                    \E i \in 1..Len(lesserseeds) : listed(trylist[t], lesserseeds[i])}
    IN IF found = {} THEN [st |-> st, ret |-> FALSE]
       ELSE LET t == CHOOSE k \in found : \A j \in found : k <= j
                trydep == trylist[t]
                ls == {i \in 1..Len(lesserseeds) : listed(trydep, lesserseeds[i])}
                lesserseed == lesserseeds[CHOOSE k \in ls : \A j \in ls : k <= j]
                st1 == IF second_class THEN st
                       ELSE [st EXCEPT
                              !.seeds[lesserseed].entries =
                                  IF InSeq(trydep, @) THEN ListRemove(@, trydep) ELSE @,
                              !.seeds[lesserseed].recommends_entries =
                                  IF InSeq(trydep, @) THEN ListRemove(@, trydep) ELSE @]
            IN [st |-> st1, ret |-> TRUE]

\* Germinator._promote_dependency; returns the state and the return value
_promote_dependency(st, sk, pkg, depend, close, build_depend, second_class, build_tree, recommends) ==
    LET depname == depend[1]
        depver == depend[2]
        deptype == depend[3]
        direct == /\ _check_versioned_dependency(depname, depver, deptype)
                  /\ _allowed_dependency(st, pkg, depname, sk, build_depend)
        virtual == /\ _allowed_virtual_dependency(pkg, deptype)
                   /\ depname \in DOMAIN provides
        trylist == IF direct THEN <<depname>>
                   ELSE IF virtual
                   THEN RealList(st, sk, pkg, depname, build_depend)
                   ELSE <<>>
        outer == _strictly_outer_seeds(st, sk)
        lesserseeds == IF close
                       THEN SelectSeq(outer, LAMBDA l :
                                st.seeds[sk].name \in st.seeds[l].close_seeds)
                       ELSE outer
        listed(trydep, l) == \/ InSeq(trydep, st.seeds[l].entries)
                             \/ InSeq(trydep, st.seeds[l].recommends_entries)
        found == {t \in 1..Len(trylist) :
                    \E i \in 1..Len(lesserseeds) : listed(trylist[t], lesserseeds[i])}
    IN IF found = {} THEN [st |-> st, ret |-> FALSE]
       ELSE LET t == CHOOSE k \in found : \A j \in found : k <= j
                trydep == trylist[t]
                ls == {i \in 1..Len(lesserseeds) : listed(trydep, lesserseeds[i])}
                lesserseed == lesserseeds[CHOOSE k \in ls : \A j \in ls : k <= j]
                st1 == IF second_class THEN st
                       ELSE [st EXCEPT
                              !.seeds[lesserseed].entries =
                                  IF InSeq(trydep, @) THEN ListRemove(@, trydep) ELSE @,
                              !.seeds[lesserseed].recommends_entries =
                                  IF InSeq(trydep, @) THEN ListRemove(@, trydep) ELSE @]
            IN Call("_add_dependency", <<st1, sk, pkg, <<trydep>>, build_depend,
                                         second_class, build_tree, recommends>>)

\* _new_dependency, were it never to add a package
_new_dependency_none(st, sk, pkg, depend, build_depend, second_class, build_tree, recommends) ==
    [st |-> st, ret |-> FALSE]

\* Germinator._new_dependency; returns the state and the return value
_new_dependency(st, sk, pkg, depend, build_depend, second_class, build_tree, recommends) ==
    LET depname == depend[1]
        depver == depend[2]
        deptype == depend[3]
        direct == /\ _check_versioned_dependency(depname, depver, deptype)
                  /\ _allowed_dependency(st, pkg, depname, sk, build_depend)
        virtual == /\ _allowed_virtual_dependency(pkg, deptype)
                   /\ depname \in DOMAIN provides
        reallist == RealList(st, sk, pkg, depname, build_depend)
        kv == st.seeds[sk].di_kernel_versions
        dependlist == IF direct THEN <<depname>>
                      ELSE IF packages[reallist[1]].KernelVersion # ""
                      THEN SelectSeq(reallist, LAMBDA d :
                              kv = {} \/ packages[d].KernelVersion \in kv)
                      ELSE <<reallist[1]>>
    IN IF ~direct /\ ~virtual
       THEN [st |-> LogError(st, <<"unknown dependency", depname, pkg,
                                   st.seeds[sk].name>>),
             ret |-> FALSE]
       ELSE IF ~direct /\ reallist = <<>>
       THEN [st |-> LogError(st, <<"nothing to choose out of", depname, pkg,
                                   st.seeds[sk].name>>),
             ret |-> FALSE]
       ELSE Call("_add_dependency", <<st, sk, pkg, dependlist, build_depend,
                                      second_class, build_tree, recommends>>)

\* the loop over the alternatives that tries promotion
PromoteLoop(st, sk, pkg, deplist, i, build_depend, second_class, build_tree, recommends) ==
    IF i > Len(deplist) THEN [st |-> st, ret |-> FALSE]
    ELSE LET r == Call("_promote_dependency",
                       <<st, sk, pkg, deplist[i], i > 1, build_depend,
                         second_class, build_tree, recommends>>)
         IN IF r.ret THEN r
            ELSE PromoteLoop(r.st, sk, pkg, deplist, i + 1, build_depend,
                             second_class, build_tree, recommends)

\* the loop over the alternatives that tries a new dependency
NewLoop(st, sk, pkg, deplist, i, build_depend, second_class, build_tree, recommends) ==
    IF i > Len(deplist) THEN [st |-> st, ret |-> FALSE]
    ELSE LET r == Call("_new_dependency",
                       <<st, sk, pkg, deplist[i], build_depend,
                         second_class, build_tree, recommends>>)
         IN IF r.ret THEN r
            ELSE NewLoop(r.st, sk, pkg, deplist, i + 1, build_depend,
                         second_class, build_tree, recommends)

\* the loop "for deplist in depends" of _add_dependency_tree
TreeLoop(st, sk, pkg, depends, i, build_depend, second_class, build_tree, recommends) ==
    IF i > Len(depends) THEN st
    ELSE LET deplist == depends[i]
             satisfied == \E k \in 1..Len(deplist) :
                             _already_satisfied(st, sk, pkg, deplist[k],
                                                build_depend, second_class)
             promoted == Call("PromoteLoop",
                              <<st, sk, pkg, deplist, 1, build_depend,
                                second_class, build_tree, recommends>>)
             new == Call("NewLoop",
                         <<promoted.st, sk, pkg, deplist, 1, build_depend,
                           second_class, build_tree, recommends>>)
             st1 == IF satisfied THEN st
                    ELSE IF promoted.ret THEN promoted.st
                    ELSE IF new.ret THEN new.st
                    ELSE IF Len(deplist) > 1
                    THEN LogError(new.st, <<"nothing to choose to satisfy",
                                            pkg, pkg, st.seeds[sk].name>>)
                    ELSE new.st
         IN TreeLoop(st1, sk, pkg, depends, i + 1, build_depend, second_class,
                     build_tree, recommends)

\* _add_dependency_tree, were a build-dependency not to make the tree
\* second class
_add_dependency_tree_first_class(st, sk, pkg, depends, build_depend, second_class, build_tree, recommends) ==
    LET bt == build_depend \/ build_tree
        sc == second_class
    IN Call("TreeLoop", <<st, sk, pkg, depends, 1, build_depend, sc, bt, recommends>>)

\* Germinator._add_dependency_tree
_add_dependency_tree(st, sk, pkg, depends, build_depend, second_class, build_tree, recommends) ==
    LET bt == build_depend \/ build_tree
        sc == bt \/ second_class
    IN Call("TreeLoop", <<st, sk, pkg, depends, 1, build_depend, sc, bt, recommends>>)

\* the part of _add_package after the dependency trees of the binary
AddSource(st, sk, pkg, second_class, build_tree) ==
    LET src == packages[pkg].Source
        inner == SeqToSet(_inner_seeds(st, sk))
        seen == IF second_class
                THEN \E i \in inner : src \in st.seeds[i].build_srcs
                ELSE \E i \in inner : src \in st.seeds[i].not_build_srcs
        st1 == IF build_tree
               THEN [st EXCEPT !.seeds[sk].build_sourcepkgs = @ \cup {src}]
               ELSE LET discarded ==
                            IF src \in st.output.all_srcs
                            THEN [k \in DOMAIN st.seeds |->
                                    [st.seeds[k] EXCEPT !.build_sourcepkgs = @ \ {src}]]
                            ELSE st.seeds
                    IN [st EXCEPT !.seeds =
                          [discarded EXCEPT ![sk].not_build_srcs = @ \cup {src},
                                            ![sk].sourcepkgs = @ \cup {src}]]
        st2 == [st1 EXCEPT !.output.all_srcs = @ \cup {src},
                           !.seeds[sk].build_srcs = @ \cup {src}]
        st3 == Call("_add_dependency_tree",
                    <<st2, sk, pkg, sources[src].BuildDepends,
                      TRUE, FALSE, FALSE, FALSE>>)
    IN IF src \notin DOMAIN sources
       THEN LogError(st, <<"missing source", src, pkg, st.seeds[sk].name>>)
       ELSE IF seen THEN st
       ELSE Call("_add_dependency_tree",
                 <<st3, sk, pkg, sources[src].BuildDependsIndep,
                   TRUE, FALSE, FALSE, FALSE>>)

\* the loop "for prov in self._packages[pkg]["Provides"]" of _add_package
PkgProvides(pkgprovides, pkg) ==
    LET provs == SeqToSet(packages[pkg].Provides)
    IN [v \in DOMAIN pkgprovides \cup provs |->
          (IF v \in DOMAIN pkgprovides THEN pkgprovides[v] ELSE {})
          \cup (IF v \in provs THEN {pkg} ELSE {})]

\* Germinator._add_package
_add_package(st, sk, pkg, why, second_class, build_tree, recommends) ==
    LET outerseeds == IF build_tree THEN _supported(st, sk)
                      ELSE _outer_seeds(st, sk)
        hits == {i \in 1..Len(outerseeds) :
                    pkg \in st.seeds[outerseeds[i]].blacklist}
        sc == build_tree \/ second_class
        inner == SeqToSet(_inner_seeds(st, sk))
        st1 == [st EXCEPT
                 !.output.all = @ \cup {pkg},
                 !.seeds[sk].build =
                     IF \E i \in inner : pkg \in st.seeds[i].build
                     THEN @ ELSE @ \cup {pkg},
                 !.seeds[sk].not_build =
                     IF build_tree \/ \E i \in inner : pkg \in st.seeds[i].not_build
                     THEN @ ELSE @ \cup {pkg},
                 !.seeds[sk].reasons =
                     _remember_why(@, pkg, why, build_tree, recommends),
                 !.output.all_reasons =
                     _remember_why(@, pkg, why, build_tree, recommends),
                 !.output.pkgprovides = PkgProvides(@, pkg)]
        st2 == Call("_add_dependency_tree",
                    <<st1, sk, pkg, packages[pkg].PreDepends,
                      FALSE, sc, build_tree, FALSE>>)
        st3 == Call("_add_dependency_tree",
                    <<st2, sk, pkg, packages[pkg].Depends,
                      FALSE, sc, build_tree, FALSE>>)
        st4 == IF _follow_recommends(st, sk)
                  \/ packages[pkg].Section = "metapackages"
               THEN Call("_add_dependency_tree",
                         <<st3, sk, pkg, packages[pkg].Recommends,
                           FALSE, sc, build_tree, TRUE>>)
               ELSE st3
    IN IF _is_pruned(st, sk, pkg) THEN st
       ELSE IF hits # {}
       THEN LET o == outerseeds[CHOOSE i \in hits : \A j \in hits : i <= j]
            IN [LogError(st, <<"blacklisted", pkg, st.seeds[o].name,
                               st.seeds[sk].name>>)
                  EXCEPT !.seeds[sk].blacklist_seen = TRUE]
       ELSE Call("AddSource", <<st4, sk, pkg, sc, build_tree>>)

-----------------------------------------------------------------------------
(* Rescue, grow and add_extras.                                            *)

\* the patterns a seed keeps under a key of _includes or _excludes
Patterns(dict, key) == IF key \in DOMAIN dict THEN dict[key] ELSE <<>>

\* the binaries of src that the include and exclude patterns select
Included(st, sk, rescue_seedname, src) ==
    LET rescue == {p \in SeqToSet(sources[src].Binaries) : p \in DOMAIN packages}
        inc == Patterns(st.seeds[sk].includes, rescue_seedname)
        exc == Patterns(st.seeds[sk].excludes, rescue_seedname)
        match(pats) == UNION {SeqToSet(_filter_packages(rescue, pats[i])) :
                                i \in 1..Len(pats)}
    IN match(inc) \ match(exc)

\* the body of the loop "for pkg in included" of _rescue_includes;
\* seed._entries.remove(pkg) raises ValueError when pkg is not in the list
RescueOne(st, sk, pkg, src, build_tree) ==
    LET lesser == _strictly_outer_seeds(st, sk)
        listed == \E i \in 1..Len(lesser) : InSeq(pkg, st.seeds[lesser[i]].entries)
        st1 == IF listed
               THEN [st EXCEPT !.seeds[sk].entries = ListRemove(@, pkg)]
               ELSE st
        st2 == IF build_tree
               THEN [st1 EXCEPT !.seeds[sk].build_depends = @ \cup {pkg}]
               ELSE [st1 EXCEPT !.seeds[sk].depends = @ \cup {pkg}]
    IN IF pkg \in st.output.all THEN st
       ELSE IF listed /\ ~InSeq(pkg, st.seeds[sk].entries)
       THEN [st EXCEPT !.raised = TRUE]
       ELSE Call("_add_package", <<st2, sk, pkg, <<"Rescued from", src>>, FALSE,
                                   build_tree, FALSE>>)

RECURSIVE RescuePkgs(_, _, _, _, _, _)
RescuePkgs(st, sk, pkgs, i, src, build_tree) ==
    IF i > Len(pkgs) \/ st.raised THEN st
    ELSE RescuePkgs(Call("RescueOne", <<st, sk, pkgs[i], src, build_tree>>),
                    sk, pkgs, i + 1, src, build_tree)

RECURSIVE RescueSrcs(_, _, _, _, _, _)
RescueSrcs(st, sk, rescue_seedname, srcs, i, build_tree) ==
    IF i > Len(srcs) \/ st.raised THEN st
    ELSE RescueSrcs(Call("RescuePkgs",
                         <<st, sk,
                           IterSet(Included(st, sk, rescue_seedname, srcs[i])),
                           1, srcs[i], build_tree>>),
                    sk, rescue_seedname, srcs, i + 1, build_tree)

\* Germinator._rescue_includes
_rescue_includes(st, seedname, rescue_seedname, build_tree) ==
    LET sk == _make_seed_name(st.structure.branch, seedname)
        rescue_seeds ==
            IF rescue_seedname = "extra" THEN SeqToSet(_inner_seeds(st, sk))
            ELSE {_make_seed_name(st.structure.branch, rescue_seedname)}
        rescue_srcs ==
            UNION {IF build_tree THEN st.seeds[r].build_srcs
                   ELSE st.seeds[r].not_build_srcs : r \in rescue_seeds}
    IN IF st.raised \/ sk \notin DOMAIN st.seeds THEN st
       ELSE IF rescue_seedname \notin DOMAIN st.seeds /\ rescue_seedname # "extra"
       THEN st
       ELSE Call("RescueSrcs",
                 <<st, sk, rescue_seedname, IterSet(rescue_srcs), 1, build_tree>>)

\* the loop "for rescue_seedname in output._seednames" of grow
RECURSIVE RescueLoop(_, _, _)
RescueLoop(st, seedname, i) ==
    IF i > Len(st.output.seednames) THEN st
    ELSE LET rescue_seedname == st.output.seednames[i]
             st1 == Call("_rescue_includes",
                         <<st, seedname, rescue_seedname, FALSE>>)
         IN IF rescue_seedname = seedname THEN st1
            ELSE RescueLoop(st1, seedname, i + 1)

\* the body of the loop "for seedname in output._seednames" of grow
GrowOne(st, seedname) ==
    LET sk == _make_seed_name(st.structure.branch, seedname)
        why == <<"seed", seedname>>
        w1 == _weed_blacklist(st, st.seeds[sk].entries, sk, FALSE, why)
        st1 == [w1.st EXCEPT !.seeds[sk].entries = w1.white]
        w2 == _weed_blacklist(st1, st1.seeds[sk].recommends_entries, sk, FALSE, why)
        st2 == [w2.st EXCEPT !.seeds[sk].recommends_entries = w2.white]
        st3 == Call("AddPackages",
                    <<st2, sk,
                      st2.seeds[sk].entries \o st2.seeds[sk].recommends_entries,
                      1, why, FALSE, FALSE, FALSE>>)
        st4 == Call("RescueLoop", <<st3, seedname, 1>>)
        st5 == Call("_rescue_includes", <<st4, seedname, "extra", FALSE>>)
    IN IF st.seeds[sk].grown THEN st
       ELSE IF st5.raised THEN st5
       ELSE [st5 EXCEPT !.seeds[sk].grown = TRUE]

\* the end of grow: the build-tree rescue into the supported seed
GrowEnd(st) ==
    LET sup == GetSupported(st)
    IN IF sup = <<>> THEN st
       ELSE Call("_rescue_includes", <<st, st.seeds[sup[1]].name, "extra", TRUE>>)

\* one pass of the loop "while found" of add_extras over the (source,
\* binary) pairs of the sources that were selected when the pass began
RECURSIVE ExtrasPairs(_, _)
ExtrasPairs(srcs, i) ==
    IF i > Len(srcs) THEN <<>>
    ELSE [k \in 1..Len(sources[srcs[i]].Binaries) |->
            <<srcs[i], sources[srcs[i]].Binaries[k]>>]
         \o ExtrasPairs(srcs, i + 1)

RECURSIVE ExtrasPass(_, _, _, _)

\* that pass, were it to skip the packages that the seed extra lists
\* instead of the packages that are in the all set
ExtrasPass_by_entries(st, pairs, i, found) ==
    IF i > Len(pairs) THEN [st |-> st, found |-> found]
    ELSE LET srcname == pairs[i][1]
             pkg == pairs[i][2]
             sk == _make_seed_name(st.structure.branch, "extra")
             skip == \/ pkg \notin DOMAIN packages
                     \/ packages[pkg].Source # srcname
                     \/ InSeq(pkg, st.seeds[sk].entries)
                     \/ (pkg \in DOMAIN hints /\ hints[pkg] # "extra")
             st1 == [st EXCEPT !.seeds[sk].entries = Append(@, pkg)]
         IN IF skip THEN ExtrasPass(st, pairs, i + 1, found)
            ELSE ExtrasPass(Call("_add_package",
                                 <<st1, sk, pkg, <<"Generated by", srcname>>,
                                   TRUE, FALSE, FALSE>>),
                            pairs, i + 1, TRUE)

\* one pass of the loop "while found" of add_extras from the i-th pair on
ExtrasPass(st, pairs, i, found) ==
    IF i > Len(pairs) THEN [st |-> st, found |-> found]
    ELSE LET srcname == pairs[i][1]
             pkg == pairs[i][2]
             sk == _make_seed_name(st.structure.branch, "extra")
             skip == \/ pkg \notin DOMAIN packages
                     \/ packages[pkg].Source # srcname
                     \/ pkg \in st.output.all
                     \/ (pkg \in DOMAIN hints /\ hints[pkg] # "extra")
             st1 == [st EXCEPT !.seeds[sk].entries = Append(@, pkg)]
         IN IF skip THEN ExtrasPass(st, pairs, i + 1, found)
            ELSE ExtrasPass(Call("_add_package",
                                 <<st1, sk, pkg, <<"Generated by", srcname>>,
                                   TRUE, FALSE, FALSE>>),
                            pairs, i + 1, TRUE)

RECURSIVE ExtrasLoop(_)

\* the loop "while found", were it to stop after its first pass
ExtrasLoop_once(st) ==
    LET pass == Call("ExtrasPass",
                     <<st, ExtrasPairs(sorted(st.output.all_srcs), 1), 1, FALSE>>)
    IN pass.st

\* the loop "while found" of add_extras
ExtrasLoop(st) ==
    LET pass == Call("ExtrasPass",
                     <<st, ExtrasPairs(sorted(st.output.all_srcs), 1), 1, FALSE>>)
    IN IF pass.found THEN ExtrasLoop(pass.st) ELSE pass.st

\* Germinator.add_extras
add_extras(st) ==
    LET sk == _make_seed_name(st.structure.branch, "extra")
        st1 == [st EXCEPT !.structure = add_extra(@)]
        st2 == [st1 EXCEPT
                 !.seeds = DictSet(@, sk, GerminatedSeed("extra", st.structure.branch)),
                 !.output.seednames = Append(@, "extra")]
    IN Call("ExtrasLoop", <<st2>>)

Call(method, a) ==
    CASE method = "_add_package" ->
           _add_package(a[1], a[2], a[3], a[4], a[5], a[6], a[7])
      [] method = "AddPackages" ->
           AddPackages(a[1], a[2], a[3], a[4], a[5], a[6], a[7], a[8])
      [] method = "_add_dependency" ->
           _add_dependency(a[1], a[2], a[3], a[4], a[5], a[6], a[7], a[8])
      [] method = "_promote_dependency" ->
           _promote_dependency(a[1], a[2], a[3], a[4], a[5], a[6], a[7], a[8], a[9])
      [] method = "_new_dependency" ->
           _new_dependency(a[1], a[2], a[3], a[4], a[5], a[6], a[7], a[8])
      [] method = "PromoteLoop" ->
           PromoteLoop(a[1], a[2], a[3], a[4], a[5], a[6], a[7], a[8], a[9])
      [] method = "NewLoop" ->
           NewLoop(a[1], a[2], a[3], a[4], a[5], a[6], a[7], a[8], a[9])
      [] method = "TreeLoop" ->
           TreeLoop(a[1], a[2], a[3], a[4], a[5], a[6], a[7], a[8], a[9])
      [] method = "_add_dependency_tree" ->
           _add_dependency_tree(a[1], a[2], a[3], a[4], a[5], a[6], a[7], a[8])
      [] method = "AddSource" -> AddSource(a[1], a[2], a[3], a[4], a[5])
      [] method = "RescueOne" -> RescueOne(a[1], a[2], a[3], a[4], a[5])
      [] method = "RescuePkgs" -> RescuePkgs(a[1], a[2], a[3], a[4], a[5], a[6])
      [] method = "RescueSrcs" -> RescueSrcs(a[1], a[2], a[3], a[4], a[5], a[6])
      [] method = "_rescue_includes" -> _rescue_includes(a[1], a[2], a[3], a[4])
      [] method = "RescueLoop" -> RescueLoop(a[1], a[2], a[3])
      [] method = "GrowOne" -> GrowOne(a[1], a[2])
      [] method = "GrowEnd" -> GrowEnd(a[1])
      [] method = "ExtrasPass" -> ExtrasPass(a[1], a[2], a[3], a[4])
      [] method = "ExtrasLoop" -> ExtrasLoop(a[1])
      [] method = "add_extras" -> add_extras(a[1])

-----------------------------------------------------------------------------
(* Seed planting.  A seed text is a list of lines, already split into the  *)
(* parts _plant_seed looks at: a Task-Seeds line, a header "name: values", *)
(* or an entry with its markers "!", "(...)" and "%".                      *)

TaskSeeds(values) ==
    [kind |-> "task-seeds", name |-> "", arg |-> "", values |-> values,
     bang |-> FALSE, paren |-> FALSE, pct |-> FALSE]

Header(name, arg, values) ==
    [kind |-> "header", name |-> name, arg |-> arg, values |-> values,
     bang |-> FALSE, paren |-> FALSE, pct |-> FALSE]

Entry(pkg) ==
    [kind |-> "entry", name |-> "", arg |-> pkg, values |-> <<>>,
     bang |-> FALSE, paren |-> FALSE, pct |-> FALSE]

Blacklist(pkg) == [Entry(pkg) EXCEPT !.bang = TRUE]

Recommend(pkg) == [Entry(pkg) EXCEPT !.paren = TRUE]

FromSource(src) == [Entry(src) EXCEPT !.pct = TRUE]

\* the names an entry line stands for: a pattern that matches nothing is
\* kept as it is ("virtual or expanded; check again later")
Matches(pkg) ==
    LET pkgs == _filter_packages(DOMAIN packages, pkg)
    IN IF pkgs = <<>> THEN <<pkg>> ELSE pkgs

\* the body of the loop "for line in raw_seed" of _plant_seed; acc holds
\* the local lists seedpkgs and seedrecommends
PlantLine(st, sk, line, acc) ==
    LET known == line.arg \in DOMAIN st.seeds \/ line.arg = "extra"
        extend(dict) == DictSet(dict, line.arg,
                                Patterns(dict, line.arg) \o line.values)
        recs == IF line.paren THEN Matches(line.arg) ELSE <<>>
        pkg == IF line.paren THEN recs[Len(recs)] ELSE line.arg
        pkgs == IF line.pct
                THEN IF pkg \in DOMAIN sources
                     THEN SelectSeq(sources[pkg].Binaries,
                                    LAMBDA p : p \in DOMAIN packages)
                     ELSE <<>>
                ELSE Matches(pkg)
    IN CASE line.kind = "task-seeds" ->
              [st |-> [st EXCEPT !.seeds[sk].close_seeds =
                                    @ \cup SeqToSet(line.values)],
               acc |-> acc]
         [] line.kind = "header" /\ line.name = "kernel-version" ->
              [st |-> [st EXCEPT !.seeds[sk].di_kernel_versions =
                                    @ \cup SeqToSet(line.values)],
               acc |-> acc]
         [] line.kind = "header" /\ line.name = "feature" ->
              [st |-> [st EXCEPT !.seeds[sk].features =
                                    @ \cup SeqToSet(line.values)],
               acc |-> acc]
         [] line.kind = "header" /\ line.name = "include" ->
              [st |-> IF known
                      THEN [st EXCEPT !.seeds[sk].includes = extend(@)]
                      ELSE LogError(st, <<"cannot include from unknown seed",
                                          line.arg, line.arg, st.seeds[sk].name>>),
               acc |-> acc]
         [] line.kind = "header" /\ line.name = "exclude" ->
              [st |-> IF known
                      THEN [st EXCEPT !.seeds[sk].excludes = extend(@)]
                      ELSE LogError(st, <<"cannot exclude from unknown seed",
                                          line.arg, line.arg, st.seeds[sk].name>>),
               acc |-> acc]
         [] line.kind = "entry" /\ line.bang ->
              [st |-> [st EXCEPT !.seeds[sk].blacklist = @ \cup SeqToSet(pkgs)],
               acc |-> [acc EXCEPT !.seedrecommends = @ \o recs]]
         [] line.kind = "entry" /\ ~line.bang ->
              [st |-> st,
               acc |-> [seedpkgs |-> acc.seedpkgs \o pkgs,
                        seedrecommends |-> acc.seedrecommends \o recs]]
         [] OTHER -> [st |-> st, acc |-> acc]

RECURSIVE PlantLines(_, _, _, _, _)
PlantLines(st, sk, lines, i, acc) ==
    IF i > Len(lines) THEN [st |-> st, acc |-> acc]
    ELSE LET r == PlantLine(st, sk, lines[i], acc)
         IN PlantLines(r.st, sk, lines, i + 1, r.acc)

\* append the packages of pkgs, in order, that are neither seeded already
\* nor pruned; they go to the recommends when asrec holds
RECURSIVE PlantAppend(_, _, _, _, _)
PlantAppend(st, sk, pkgs, i, asrec) ==
    IF i > Len(pkgs) THEN st
    ELSE LET pkg == pkgs[i]
             st1 == IF _already_seeded(st, sk, pkg) \/ _is_pruned(st, sk, pkg)
                    THEN st
                    ELSE IF asrec
                    THEN [st EXCEPT !.seeds[sk].recommends_entries = Append(@, pkg)]
                    ELSE [st EXCEPT !.seeds[sk].entries = Append(@, pkg)]
         IN PlantAppend(st1, sk, pkgs, i + 1, asrec)

\* the loop "for pkg in seedpkgs" of _plant_seed
RECURSIVE PlantPkgs(_, _, _, _, _)
PlantPkgs(st, sk, seedpkgs, i, seedrecommends) ==
    IF i > Len(seedpkgs) THEN st
    ELSE LET pkg == seedpkgs[i]
             asrec == InSeq(pkg, seedrecommends)
             st1 == IF pkg \in DOMAIN hints /\ hints[pkg] # st.seeds[sk].name
                    THEN st
                    ELSE IF pkg \in DOMAIN packages
                    THEN PlantAppend(st, sk, <<pkg>>, 1, asrec)
                    ELSE IF pkg \in DOMAIN provides
                    THEN PlantAppend(st, sk, provides[pkg], 1, asrec)
                    ELSE LogError(st, <<"unknown package", pkg, pkg,
                                        st.seeds[sk].name>>)
         IN PlantPkgs(st1, sk, seedpkgs, i + 1, seedrecommends)

\* the loop "for pkg in self._hints" of _plant_seed
RECURSIVE PlantHints(_, _, _, _, _)
PlantHints(st, sk, hinted, i, seedrecommends) ==
    IF i > Len(hinted) THEN st
    ELSE LET pkg == hinted[i]
             st1 == IF hints[pkg] = st.seeds[sk].name
                       /\ ~_already_seeded(st, sk, pkg)
                    THEN IF pkg \in DOMAIN packages
                         THEN IF InSeq(pkg, seedrecommends)
                              THEN [st EXCEPT !.seeds[sk].recommends_entries
                                                 = Append(@, pkg)]
                              ELSE [st EXCEPT !.seeds[sk].entries = Append(@, pkg)]
                         ELSE LogError(st, <<"unknown hinted package", pkg, pkg,
                                             st.seeds[sk].name>>)
                    ELSE st
         IN PlantHints(st1, sk, hinted, i + 1, seedrecommends)

\* cmp on seed names, which compares the characters; the model lists the
\* seed names it uses, sorted
SeedNameOrder == <<"base", "desktop", "extra", "server", "ship">>

cmp(a, b) ==
    LET pos(x) == CHOOSE i \in 1..Len(SeedNameOrder) : SeedNameOrder[i] = x
    IN IF a = b THEN 0 ELSE IF pos(a) < pos(b) THEN -1 ELSE 1

\* iteration over self._seeds: some order of the full seed names, fixed
\* for the run
IterKeys(S) ==
    LET n == Len(SeedNameOrder)
        all == [i \in 1..(2 * n) |->
                  _make_seed_name(IF i <= n THEN "other" ELSE "ubuntu",
                                  SeedNameOrder[((i - 1) % n) + 1])]
        asc == SelectSeq(all, LAMBDA k : k \in S)
    IN IF setorder = "asc" THEN asc ELSE Reverse(asc)

\* the structure a seed is attached to
StructureOf(st, branch) ==
    IF branch = st.structure.branch THEN st.structure
    ELSE st.planted[branch].structure

BlacklistSeen(st, key) ==
    key \in DOMAIN st.seeds /\ st.seeds[key].blacklist_seen

\* the loop over zip(left_inherit, right_inherit) of __cmp__
RECURSIVE CmpInner(_, _, _, _, _, _)
CmpInner(st, left_inherit, right_inherit, left_branch, right_branch, i) ==
    IF i > Len(left_inherit) THEN 0
    ELSE IF cmp(left_inherit[i], right_inherit[i]) # 0
    THEN cmp(left_inherit[i], right_inherit[i])
    ELSE IF BlacklistSeen(st, _make_seed_name(left_branch, left_inherit[i]))
    THEN -1
    ELSE IF BlacklistSeen(st, _make_seed_name(right_branch, right_inherit[i]))
    THEN -1
    ELSE CmpInner(st, left_inherit, right_inherit, left_branch, right_branch,
                  i + 1)

\* GerminatedSeed.__cmp__ for two seeds, which "seed == existing" calls
__cmp__(st, self, other) ==
    LET left_inherit == inner_seeds(StructureOf(st, self.branch), self.name)
        right_inherit == inner_seeds(StructureOf(st, other.branch), other.name)
        ret == CmpInner(st, left_inherit, right_inherit, self.branch,
                        other.branch, 1)
    IN IF Len(left_inherit) # Len(right_inherit)
       THEN IF Len(left_inherit) < Len(right_inherit) THEN -1 ELSE 1
       ELSE IF ret # 0 THEN ret
       ELSE IF self.blacklist_seen \/ other.blacklist_seen THEN -1
       ELSE 0

\* GerminatedSeed.copy, for a seed that is grown; the copies of this model
\* are not modified afterwards, so the sharing of the sets is not modelled
copy(seed, branch) ==
    [seed EXCEPT !.branch = branch, !.blacklist_seen = FALSE, !.grown = TRUE]

\* the planted seeds that equal the new seed, in the order of the loop
\* "for existing in self._seeds.itervalues()"
EqualSeeds(st, seed) ==
    SelectSeq(IterKeys(DOMAIN st.seeds),
              LAMBDA k : __cmp__(st, seed, st.seeds[k]) = 0)

\* the branch "if seed == existing" of _plant_seed; the assertion of copy
\* fails for a seed that is not grown
ReuseSeed(st, seedname, existing) ==
    IF ~st.seeds[existing].grown THEN [st EXCEPT !.raised = TRUE]
    ELSE [st EXCEPT
             !.seeds = DictSet(@, _make_seed_name(st.structure.branch, seedname),
                               copy(st.seeds[existing], st.structure.branch)),
             !.output.seednames = Append(@, seedname)]

\* _plant_seed, were the new seed put at the head of the growth order
_plant_seed_first(st, seedname, raw_seed) ==
    LET sk == _make_seed_name(st.structure.branch, seedname)
        seed == GerminatedSeed(seedname, st.structure.branch)
        equal == EqualSeeds(st, seed)
        st1 == [st EXCEPT !.seeds = DictSet(@, sk, seed),
                          !.output.seednames = <<seedname>> \o @]
        r == PlantLines(st1, sk, raw_seed, 1,
                        [seedpkgs |-> <<>>, seedrecommends |-> <<>>])
        st2 == PlantPkgs(r.st, sk, r.acc.seedpkgs, 1, r.acc.seedrecommends)
    IN IF equal # <<>> THEN ReuseSeed(st, seedname, equal[1])
       ELSE PlantHints(st2, sk, IterSet(DOMAIN hints), 1, r.acc.seedrecommends)

\* Germinator._plant_seed
_plant_seed(st, seedname, raw_seed) ==
    LET sk == _make_seed_name(st.structure.branch, seedname)
        seed == GerminatedSeed(seedname, st.structure.branch)
        equal == EqualSeeds(st, seed)
        st1 == [st EXCEPT !.seeds = DictSet(@, sk, seed),
                          !.output.seednames = Append(@, seedname)]
        r == PlantLines(st1, sk, raw_seed, 1,
                        [seedpkgs |-> <<>>, seedrecommends |-> <<>>])
        st2 == PlantPkgs(r.st, sk, r.acc.seedpkgs, 1, r.acc.seedrecommends)
    IN IF equal # <<>> THEN ReuseSeed(st, seedname, equal[1])
       ELSE PlantHints(st2, sk, IterSet(DOMAIN hints), 1, r.acc.seedrecommends)

RECURSIVE PlantNames(_, _)
PlantNames(st, i) ==
    IF i > Len(st.structure.names) \/ st.raised THEN st
    ELSE PlantNames(_plant_seed(st, st.structure.names[i],
                                st.structure.texts[st.structure.names[i]]),
                    i + 1)

\* Germinator.plant_seeds; wanted is <<>> for seeds=None
plant_seeds(st, wanted) ==
    LET st1 == IF wanted = <<>> THEN st
               ELSE [st EXCEPT !.structure = limit(@, wanted)]
    IN PlantNames(st1, 1)

-----------------------------------------------------------------------------
(* Inputs: one archive, and seed collections built from a list of          *)
(* scenarios with up to MaxExtraLines further lines added to their seeds.  *)

Atom(name) == <<name, 0, "">>

Pkg(name, source, predepends, depends, recommends, provs, kernver) ==
    [Package |-> name, Version |-> 1, Section |-> "misc", Source |-> source,
     PreDepends |-> predepends, Depends |-> depends,
     Recommends |-> recommends, Provides |-> provs, KernelVersion |-> kernver]

Src(name, builddepends, builddependsindep, binaries) ==
    [Package |-> name, Version |-> 1, BuildDepends |-> builddepends,
     BuildDependsIndep |-> builddependsindep, Binaries |-> binaries]

Deb(section) == [indextype |-> "PACKAGES", section |-> section]
Udeb(section) == [indextype |-> "INSTALLER_PACKAGES", section |-> section]
Source(section) == [indextype |-> "SOURCES", section |-> section]

ArchiveSections ==
    << Deb(Pkg("hello", "", <<>>, <<<<Atom("hello-dependency")>>>>, <<>>, <<>>, "")),
       Deb(Pkg("hello-dependency", "hello", <<>>, <<>>, <<>>, <<>>, "")),
       Source(Src("hello", <<>>, <<>>, <<"hello", "hello-dependency">>)),
       Deb(Pkg("debhelper", "", <<>>, <<>>, <<>>, <<>>, "")),
       Source(Src("debhelper", <<>>, <<>>, <<"debhelper">>)),
       Deb(Pkg("a", "", <<>>, <<<<Atom("x"), Atom("y")>>>>,
               <<<<Atom("r")>>>>, <<>>, "")),
       Source(Src("a", <<<<Atom("debhelper")>>>>, <<<<Atom("r"), Atom("x")>>>>,
                  <<"a">>)),
       Deb(Pkg("x", "", <<>>, <<>>, <<>>, <<>>, "")),
       Deb(Pkg("r", "x", <<>>, <<>>, <<>>, <<>>, "")),
       Source(Src("x", <<>>, <<>>, <<"x", "r">>)),
       Deb(Pkg("x-data", "x", <<>>, <<>>, <<>>, <<>>, "")),
       Deb(Pkg("y", "", <<>>, <<>>, <<>>, <<>>, "")),
       Deb(Pkg("v", "", <<<<Atom("y")>>>>, <<<<<<"x", 2, ">=">>>>>>, <<>>, <<>>, "")),
       Source(Src("v", <<>>, <<>>, <<"v">>)),
       Deb(Pkg("top", "", <<>>, <<<<Atom("a")>>, <<Atom("v")>>>>, <<>>, <<>>, "")),
       Source(Src("top", <<>>, <<>>, <<"top">>)),
       Deb(Pkg("mailx", "", <<>>, <<<<Atom("mail-transport-agent")>>>>,
               <<>>, <<>>, "")),
       Source(Src("mailx", <<<<Atom("debhelper")>>>>, <<>>, <<"mailx">>)),
       Deb(Pkg("postfix", "", <<>>, <<>>, <<>>, <<"mail-transport-agent">>, "")),
       Source(Src("postfix", <<>>, <<>>, <<"postfix">>)),
       Deb(Pkg("exim4", "", <<>>, <<>>, <<>>, <<"mail-transport-agent">>, "")),
       Source(Src("exim4", <<<<Atom("kmod-a")>>>>, <<>>, <<"exim4">>)),
       Deb(Pkg("bad", "", <<>>, <<>>, <<>>, <<>>, "")),
       Source(Src("bad", <<>>, <<>>, <<"bad">>)),
       Deb(Pkg("foo", "", <<>>, <<>>, <<>>, <<>>, "")),
       Deb(Pkg("libfoo", "foo", <<>>, <<<<Atom("hello-dependency")>>>>, <<>>, <<>>, "")),
       Deb(Pkg("foo-tools", "foo", <<>>, <<<<Atom("libfoo")>>>>, <<>>, <<>>, "")),
       Source(Src("foo", <<<<Atom("debhelper")>>>>, <<>>,
                  <<"foo", "libfoo", "foo-tools">>)),
       Udeb(Pkg("kmod-a", "kmod", <<>>, <<>>, <<>>, <<"kmod">>, "5.4")),
       Udeb(Pkg("kmod-b", "kmod", <<>>, <<>>, <<>>, <<"kmod">>, "5.15")),
       Source(Src("kmod", <<>>, <<>>, <<"kmod-a", "kmod-b">>)),
       Udeb(Pkg("installer-x", "", <<>>, <<<<Atom("kmod")>>>>, <<>>, <<>>, "")),
       Source(Src("installer-x", <<>>, <<>>, <<"installer-x">>)),
       Deb(Pkg("ping", "", <<>>, <<<<Atom("pong")>>>>, <<>>, <<>>, "")),
       Deb(Pkg("pong", "ping", <<>>, <<<<Atom("ping")>>>>, <<<<Atom("ping")>>>>,
               <<>>, "")),
       Deb(Pkg("ping-dbg", "ping", <<>>, <<<<Atom("pong-dbg")>>>>, <<>>, <<>>, "")),
       Deb(Pkg("pong-dbg", "ping", <<>>, <<<<Atom("ping-dbg")>>>>, <<>>, <<>>, "")),
       Source(Src("ping", <<<<Atom("pong")>>>>, <<<<Atom("ping")>>>>,
                  <<"ping", "pong", "ping-dbg", "pong-dbg">>)) >>

\* structure files
Two == << <<"base:">>, <<"desktop:", "base">> >>

Chain == << <<"base:">>, <<"desktop:", "base">>, <<"ship:", "desktop">> >>

Fork == << <<"base:">>, <<"desktop:", "base">>, <<"server:", "base">> >>

NoText == [base |-> <<>>, desktop |-> <<>>, ship |-> <<>>, server |-> <<>>]

Scenario(struct, flags, base, desktop, third, hinted) ==
    [file |-> IF flags = <<>> THEN struct
              ELSE Append(struct, <<"feature">> \o flags),
     texts |-> [NoText EXCEPT !.base = base, !.desktop = desktop,
                              !.ship = third, !.server = third],
     hints |-> hinted]

NoHints == [x \in {} |-> ""]

\* seed sets over the packages ping and pong, which depend on, recommend
\* and build-depend on each other, and a seed set whose seed base has the
\* feature follow-recommends of its own
CyclicScenarios ==
    << Scenario(Two, <<"follow-recommends">>, <<Entry("ping")>>, <<>>, <<>>,
                NoHints),
       Scenario(Chain, <<>>, <<Entry("pong")>>, <<Entry("ping-dbg")>>,
                <<Entry("ping")>>, NoHints),
       Scenario(Two, <<>>, <<Header("feature", "", <<"follow-recommends">>),
                           Entry("a")>>, <<>>, <<>>, NoHints) >>

Scenarios ==
    << Scenario(Two, <<>>, <<Entry("hello")>>, <<>>, <<>>, NoHints),
       Scenario(Two, <<>>, <<>>, <<>>, <<>>, NoHints),
       Scenario(Two, <<>>, <<Entry("y")>>, <<Entry("a")>>, <<>>, NoHints),
       Scenario(Two, <<>>, <<Entry("postfix")>>, <<Entry("mailx")>>, <<>>, NoHints),
       Scenario(Two, <<>>, <<Blacklist("bad")>>, <<Entry("bad")>>, <<>>, NoHints),
       Scenario(Two, <<>>, <<Entry("bad"), Entry("hello")>>, <<Blacklist("bad")>>,
                <<>>, NoHints),
       Scenario(Chain, <<>>, <<Entry("foo")>>,
                <<Header("include", "base", <<"lib*">>)>>,
                <<Entry("libfoo")>>, NoHints),
       Scenario(Chain, <<>>, <<Entry("foo")>>,
                <<Header("include", "extra", <<"lib*">>)>>,
                <<Entry("libfoo")>>, NoHints),
       Scenario(Chain, <<>>, <<Entry("foo")>>,
                <<Header("include", "extra", <<"*">>),
                  Header("exclude", "extra", <<"foo-tools">>)>>,
                <<>>, NoHints),
       Scenario(Two, <<>>, <<Header("kernel-version", "", <<"5.4">>),
                           Entry("installer-x")>>, <<>>, <<>>,
                [x \in {"kmod-b"} |-> "base"]),
       Scenario(Two, <<>>, <<Header("kernel-version", "", <<"5.4">>),
                           Header("include", "extra", <<"kmod-*">>),
                           Entry("kmod-a")>>, <<>>, <<>>, NoHints),
       Scenario(Chain, <<>>, <<Entry("a")>>, <<>>, <<Entry("x")>>, NoHints),
       Scenario(Fork, <<>>, <<>>, <<Entry("a")>>,
                <<Entry("a"), Entry("v"), Entry("debhelper")>>, NoHints),
       Scenario(Chain, <<>>, <<Entry("a")>>, <<Blacklist("x")>>, <<Entry("x")>>,
                NoHints),
       Scenario(Chain, <<>>, <<Entry("a")>>, <<>>,
                <<TaskSeeds(<<"base">>), Entry("y")>>, NoHints),
       Scenario(Two, <<"follow-recommends">>, <<Entry("a")>>,
                <<Recommend("r"), Entry("hello")>>, <<>>, NoHints),
       Scenario(Two, <<>>, <<Entry("top")>>, <<Blacklist("y")>>, <<>>, NoHints),
       Scenario(Chain, <<>>, <<Entry("top")>>, <<Entry("v")>>, <<Blacklist("x")>>,
                NoHints),
       Scenario(Chain, <<>>, <<Entry("top")>>, <<>>, <<Entry("x")>>, NoHints),
       Scenario(Two, <<>>, <<Entry("foo"), Header("include", "extra", <<"lib*">>)>>,
                <<Blacklist("libfoo")>>, <<>>, NoHints),
       Scenario(Two, <<>>, <<Entry("y"), Entry("postfix")>>,
                <<Entry("a"), Entry("mailx")>>, <<>>, NoHints),
       Scenario(Two, <<>>, <<Entry("mail-transport-agent")>>,
                <<FromSource("foo"), Entry("kmod")>>, <<>>,
                [x \in {"libfoo", "exim4"} |->
                    IF x = "libfoo" THEN "base" ELSE "desktop"]) >>

\* the lines that may be added to a seed of a scenario
ExtraPool ==
    { Entry("a"), Entry("x"), Entry("hello"), Entry("v"), Entry("top"),
      Entry("foo-tools"),
      Blacklist("x"), Blacklist("hello-dependency"),
      Header("include", "extra", <<"lib*">>),
      Header("kernel-version", "", <<"5.4">>),
      Header("feature", "", <<"no-follow-recommends">>) }

ExtraChoices(sc) ==
    UNION {[1..n -> SeqToSet(SingleSeedStructure("ubuntu", sc.file).seed_order)
                      \X ExtraPool] :
             n \in 0..MaxExtraLines}

RECURSIVE AddLines(_, _, _)
AddLines(texts, extra, i) ==
    IF i > Len(extra) THEN texts
    ELSE AddLines([texts EXCEPT ![extra[i][1]] = Append(@, extra[i][2])],
                  extra, i + 1)

NoStructure ==
    [branch |-> "", seed_order |-> <<>>, names |-> <<>>, inherit |-> EmptyDict,
     original_inherit |-> EmptyDict, features |-> {}, lines |-> <<>>,
     texts |-> EmptyDict]

\* topo_sort and the loop of _expand_inheritance look up every inherited
\* name and end only for an inheritance without a cycle
Expandable(order, inh) ==
    /\ \A n \in DOMAIN inh : SeqToSet(inh[n]) \subseteq DOMAIN inh
    /\ SeqToSet(topo_sort(order, inh, <<>>)) = DOMAIN inh

\* SeedStructure.__init__; texts maps seed names to the texts of the seed
\* files, and a seed without one has an empty file
SeedStructure(branch, seed_bases, texts) ==
    LET all == _parse(seed_bases, branch, {}, {})
        struct == [branch |-> branch, seed_order |-> all.seed_order,
                   names |-> <<>>, inherit |-> all.inherit,
                   original_inherit |-> EmptyDict,
                   features |-> all.features, lines |-> all.lines,
                   texts |-> [n \in DOMAIN all.inherit |->
                                IF n \in DOMAIN texts THEN texts[n] ELSE <<>>]]
    IN IF all.raised \/ ~Expandable(all.seed_order, all.inherit)
       THEN [struct |-> NoStructure, errors |-> all.errors, raised |-> TRUE]
       ELSE [struct |-> _expand_inheritance(struct), errors |-> all.errors,
             raised |-> FALSE]

\* the seed base of a scenario: the branch ubuntu and a branch other with
\* the same STRUCTURE file
ScenarioBase(sc) == [b \in {"ubuntu", "other"} |-> sc.file]

ScenarioStructure(sc, extra) ==
    SeedStructure("ubuntu", ScenarioBase(sc), AddLines(sc.texts, extra, 1))

-----------------------------------------------------------------------------
(* The germination run: plant_seeds, grow (one seed per step), add_extras. *)

State == [structure |-> structure, planted |-> planted, seeds |-> seeds,
          output |-> output,
          errors |-> errors, raised |-> FALSE]

Install(st, at, i) ==
    /\ structure' = st.structure
    /\ planted' = st.planted
    /\ seeds' = st.seeds
    /\ output' = st.output
    /\ errors' = st.errors
    /\ pc' = IF st.raised THEN [at |-> "raised", i |-> i] ELSE [at |-> at, i |-> i]
    /\ UNCHANGED <<archvars, ingested, hints, basevars, setorder>>

Archive == [packages |-> packages, packagetype |-> packagetype,
            provides |-> provides, sources |-> sources]

Init ==
    /\ packages = EmptyDict
    /\ packagetype = EmptyDict
    /\ provides = EmptyDict
    /\ sources = EmptyDict
    /\ ingested = <<>>
    /\ hints = NoHints
    /\ seedbase = EmptyDict
    /\ parsed = NoSingle
    /\ structure = NoStructure
    /\ planted = EmptyDict
    /\ seeds = EmptyDict
    /\ output = GerminatedSeedStructure
    /\ errors = {}
    /\ setorder \in {"asc", "desc"}
    /\ pc = [at |-> "archive", i |-> 1]

\* Germinator.parse_archive, one section per step
ParseArchive ==
    /\ pc.at = "archive"
    /\ LET arch == parse_archive(Archive, ArchiveSections[pc.i])
       IN /\ packages' = arch.packages
          /\ packagetype' = arch.packagetype
          /\ provides' = arch.provides
          /\ sources' = arch.sources
    /\ ingested' = Append(ingested, ArchiveSections[pc.i])
    /\ pc' = IF pc.i = Len(ArchiveSections) THEN [at |-> "seeds", i |-> 0]
             ELSE [pc EXCEPT !.i = @ + 1]
    /\ UNCHANGED <<hints, basevars, structure, planted, seeds, output, errors,
                   setorder>>

\* SeedStructure(branch, ...) and the reading of the hints file
ReadSeeds ==
    /\ pc.at = "seeds"
    /\ \E n \in 1..Len(Scenarios) :
         \E extra \in ExtraChoices(Scenarios[n]) :
           LET built == ScenarioStructure(Scenarios[n], extra)
           IN /\ seedbase' = ScenarioBase(Scenarios[n])
              /\ parsed' = SingleSeedStructure("ubuntu", Scenarios[n].file)
              /\ structure' = built.struct
              /\ errors' = errors \cup built.errors
              /\ hints' = Scenarios[n].hints
              /\ pc' = [at |-> IF built.raised THEN "raised" ELSE "start",
                        i |-> 0]
    /\ UNCHANGED <<archvars, ingested, planted, seeds, output, setorder>>

\* the seeds argument of plant_seeds: None, or one seed name
LimitArgs ==
    {<<>>, Reverse(structure.seed_order)}
    \cup {<<s>> : s \in SeqToSet(structure.seed_order)}

PlantSeeds ==
    /\ pc.at = "start"
    /\ \E wanted \in LimitArgs :
         Install(plant_seeds(State, wanted), "grow", 1)

GrowSeed ==
    /\ pc.at = "grow"
    /\ pc.i <= Len(output.seednames)
    /\ Install(Call("GrowOne", <<State, output.seednames[pc.i]>>), "grow", pc.i + 1)

GrowFinish ==
    /\ pc.at = "grow"
    /\ pc.i > Len(output.seednames)
    /\ Install(Call("GrowEnd", <<State>>), "grown", 0)

AddExtras ==
    /\ pc.at = "grown"
    /\ Install(Call("add_extras", <<State>>), "extras", 0)

Next ==
    ParseArchive \/ ReadSeeds \/ PlantSeeds \/ GrowSeed \/ GrowFinish
    \/ AddExtras

Spec == Init /\ [][Next]_vars

-----------------------------------------------------------------------------
(* A run that goes on to plant a second structure: the branch other, with  *)
(* the STRUCTURE file of the first branch and seed files of its own.       *)

\* the seed files of the branch other: those of the first branch, the same
\* with another base seed, or empty files
OtherTexts ==
    { structure.texts,
      [n \in DOMAIN structure.texts |->
          IF n = "base" THEN <<Entry("bad")>> ELSE structure.texts[n]],
      [n \in DOMAIN structure.texts |-> <<>>] }

\* SeedStructure("other", ...) and plant_seeds(structure) for it
PlantOther ==
    /\ pc.at \in {"grow", "grown", "extras"}
    /\ \E texts \in OtherTexts :
         LET built == SeedStructure("other", seedbase, texts)
             st == [State EXCEPT
                      !.planted = DictSet(@, structure.branch,
                                          [structure |-> structure,
                                           output |-> output]),
                      !.structure = built.struct,
                      !.output = GerminatedSeedStructure]
         IN Install(plant_seeds(st, <<>>), "replanted", 0)

NextReplant == Next \/ PlantOther

SpecReplant == Init /\ [][NextReplant]_vars

-----------------------------------------------------------------------------
(* Ingestion on its own: parse_archive hands sections to the parsers in    *)
(* any order and with repeated names.                                      *)

BinarySections ==
    {[Package |-> n, Version |-> ver, Section |-> "misc", Source |-> "",
      PreDepends |-> <<>>, Depends |-> deps, Recommends |-> <<>>,
      Provides |-> provs, KernelVersion |-> ""] :
        n \in {"p", "q"}, ver \in 1..MaxVersion,
        deps \in {<<>>}, provs \in {<<>>, <<"q">>}}

SourceSections ==
    {[Package |-> "p", Version |-> ver, BuildDepends |-> <<>>,
      BuildDependsIndep |-> <<>>, Binaries |-> bins] :
        ver \in 1..MaxVersion, bins \in {<<"p">>, <<"p", "q">>}}

InstallArchive(arch, s) ==
    /\ packages' = arch.packages
    /\ packagetype' = arch.packagetype
    /\ provides' = arch.provides
    /\ sources' = arch.sources
    /\ ingested' = Append(ingested, s)
    /\ UNCHANGED <<hints, basevars, structure, planted, seeds, output, errors,
                   setorder, pc>>

InitArchive ==
    /\ packages = EmptyDict
    /\ packagetype = EmptyDict
    /\ provides = EmptyDict
    /\ sources = EmptyDict
    /\ ingested = <<>>
    /\ hints = NoHints
    /\ seedbase = ScenarioBase(Scenarios[1])
    /\ parsed = SingleSeedStructure("ubuntu", Scenarios[1].file)
    /\ structure = ScenarioStructure(Scenarios[1], <<>>).struct
    /\ planted = EmptyDict
    /\ seeds = EmptyDict
    /\ output = GerminatedSeedStructure
    /\ errors = {}
    /\ setorder = "asc"
    /\ pc = [at |-> "feed", i |-> 0]

ParsePackage ==
    /\ pc.at = "feed"
    /\ Len(ingested) < MaxIngest
    /\ \E section \in BinarySections, pkgtype \in {"deb", "udeb"} :
         InstallArchive(_parse_package(Archive, section, pkgtype),
                        IF pkgtype = "deb" THEN Deb(section) ELSE Udeb(section))

ParseSource ==
    /\ pc.at = "feed"
    /\ Len(ingested) < MaxIngest
    /\ \E section \in SourceSections :
         InstallArchive(_parse_source(Archive, section), Source(section))

NextArchive == ParsePackage \/ ParseSource

SpecArchive == InitArchive /\ [][NextArchive]_vars

-----------------------------------------------------------------------------
(* The structure files on their own: SingleSeedStructure reads the file of *)
(* one branch, SeedStructure builds the structure of a branch of a seed    *)
(* base, for any file.                                                     *)

\* lines a structure file is made of
StructureLines ==
    { <<>>, <<"#", "ship:", "base">>, <<"#ship:", "base">>,
      <<"base:">>, <<"desktop:", "base">>, <<"ship:", "desktop">>,
      <<"ship:">>, <<"include", "other">>, <<"include", "gone", "other">>,
      <<"feature", "follow-recommends">>,
      <<"feature", "no-follow-recommends", "x">>,
      <<"Task-Description:", "x">>, <<"task", "ship">>, <<"ubuntu/base:">> }

ShortFiles == UNION {[1..n -> StructureLines] : n \in 0..MaxFileLines}

\* the lists without repetition of names of S
Arrangements(S) ==
    {p \in UNION {[1..n -> S] : n \in 0..Cardinality(S)} :
        \A i, j \in 1..Len(p) : i # j => p[i] # p[j]}

\* files of four seeds, each inheriting from seeds above it in any order
LayeredFiles ==
    { << <<"base:">>, <<"desktop:">> \o p2, <<"server:">> \o p3,
         <<"ship:">> \o p4 >> :
        p2 \in Arrangements({"base"}),
        p3 \in Arrangements({"base", "desktop"}),
        p4 \in Arrangements({"base", "desktop", "server"}) }

\* files that are not sorted, inherit from a seed nobody declares, or
\* inherit in a circle
\* a file with every kind of line
MixedFile ==
    << <<"#", "the", "seeds">>, <<>>, <<"base:">>, <<"include", "other">>,
       <<"desktop:", "base">>, <<"feature", "follow-recommends">>,
       <<"task", "ship">>, <<"#ship:", "desktop">> >>

OddFiles ==
    { MixedFile,
      << <<"ship:", "desktop">>, <<"desktop:", "base">>, <<"base:">> >>,
      << <<"desktop:", "base">> >>,
      << <<"base:", "desktop">>, <<"desktop:", "base">> >>,
      << <<"base:", "base">> >> }

\* the STRUCTURE file of the branch "other"
OtherFiles ==
    { << <<"base:">>, <<"server:", "base">>, <<"ship:", "server">> >>,
      << <<"include", "ubuntu">>, <<"feature", "y">>, <<"desktop:">>,
         <<"server:", "desktop">> >> }

SeedBases ==
    {[b \in {"ubuntu", "other"} |-> IF b = "ubuntu" THEN f ELSE g] :
        f \in ShortFiles \cup LayeredFiles \cup OddFiles, g \in OtherFiles}

InitStructure ==
    /\ packages = EmptyDict
    /\ packagetype = EmptyDict
    /\ provides = EmptyDict
    /\ sources = EmptyDict
    /\ ingested = <<>>
    /\ hints = NoHints
    /\ seedbase \in SeedBases
    /\ parsed = NoSingle
    /\ structure = NoStructure
    /\ planted = EmptyDict
    /\ seeds = EmptyDict
    /\ output = GerminatedSeedStructure
    /\ errors = {}
    /\ setorder = "asc"
    /\ pc = [at |-> "base", i |-> 0]

\* SingleSeedStructure(branch, f) for the STRUCTURE file of the branch
ReadStructure ==
    /\ pc.at = "base"
    /\ pc.i = 0
    /\ parsed' = SingleSeedStructure("ubuntu", seedbase["ubuntu"])
    /\ errors' = errors \cup parsed'.errors
    /\ pc' = [pc EXCEPT !.i = 1]
    /\ UNCHANGED <<archvars, ingested, hints, seedbase, structure, planted,
                   seeds, output, setorder>>

\* SeedStructure(branch, seed_bases)
BuildStructure ==
    /\ pc.at = "base"
    /\ LET built == SeedStructure("ubuntu", seedbase, EmptyDict)
       IN /\ structure' = built.struct
          /\ errors' = errors \cup built.errors
          /\ pc' = [pc EXCEPT !.at = IF built.raised THEN "raised"
                                     ELSE "built"]
    /\ UNCHANGED <<archvars, ingested, hints, basevars, planted, seeds, output,
                   setorder>>

NextStructure == ReadStructure \/ BuildStructure

SpecStructure == InitStructure /\ [][NextStructure]_vars

-----------------------------------------------------------------------------
(* Runs to the end, for further seed sets: the seeds hold packages whose   *)
(* Depends, Recommends and Build-Depends are cyclic, or a seed has the     *)
(* feature follow-recommends; one call of the interface follows another    *)
(* until add_extras has returned.                                          *)

\* SeedStructure(branch, ...) for one of the further seed sets
ReadCyclic ==
    /\ pc.at = "seeds"
    /\ \E n \in 1..Len(CyclicScenarios) :
         \E extra \in ExtraChoices(CyclicScenarios[n]) :
           LET built == ScenarioStructure(CyclicScenarios[n], extra)
           IN /\ seedbase' = ScenarioBase(CyclicScenarios[n])
              /\ parsed' = SingleSeedStructure("ubuntu", CyclicScenarios[n].file)
              /\ structure' = built.struct
              /\ errors' = errors \cup built.errors
              /\ hints' = CyclicScenarios[n].hints
              /\ pc' = [at |-> IF built.raised THEN "raised" ELSE "start",
                        i |-> 0]
    /\ UNCHANGED <<archvars, ingested, planted, seeds, output, setorder>>

NextCyclic ==
    ParseArchive \/ ReadCyclic \/ PlantSeeds \/ GrowSeed \/ GrowFinish
    \/ AddExtras

\* a run that has not come to its end, or to a raised error
Pending == pc.at \notin {"extras", "raised"}

\* the positions of a run
PcRange ==
    [at : {"archive", "seeds", "start", "grow", "grown", "extras", "raised"},
     i : 0..(Len(ArchiveSections) + 1)]

\* the run moves on to another position
Advance == Pending /\ pc' \in PcRange

\* the program is sequential: a run that has not ended goes on with its
\* next call, so its position does not stay the same for ever
SpecFair == Init /\ [][NextCyclic]_vars /\ WF_pc(Advance)

-----------------------------------------------------------------------------
(* Properties of ingestion.                                                *)

IsBinary(s) == s.indextype \in {"PACKAGES", "INSTALLER_PACKAGES"}

\* the versions of the ingested records of one index kind with one name
IngestedVersions(binary, name) ==
    {ingested[i].section.Version : i \in
        {k \in 1..Len(ingested) : /\ IsBinary(ingested[k]) = binary
                                  /\ ingested[k].section.Package = name}}

MaxOf(S) == CHOOSE m \in S : \A n \in S : n <= m

IngestedNames(binary) ==
    {ingested[i].section.Package : i \in
        {k \in 1..Len(ingested) : IsBinary(ingested[k]) = binary}}

RetainedNewest ==
    /\ DOMAIN packages = IngestedNames(TRUE)
    /\ DOMAIN packagetype = IngestedNames(TRUE)
    /\ DOMAIN sources = IngestedNames(FALSE)
    /\ \A name \in DOMAIN packages :
         packages[name].Version = MaxOf(IngestedVersions(TRUE, name))
    /\ \A name \in DOMAIN sources :
         sources[name].Version = MaxOf(IngestedVersions(FALSE, name))

\* a step that ingests a record no newer than the retained one
StaleIngest ==
    /\ Len(ingested') = Len(ingested) + 1
    /\ LET s == ingested'[Len(ingested')]
       IN IF IsBinary(s)
          THEN /\ s.section.Package \in DOMAIN packages
               /\ s.section.Version <= packages[s.section.Package].Version
          ELSE /\ s.section.Package \in DOMAIN sources
               /\ s.section.Version <= sources[s.section.Package].Version

\* C7 (newer-wins): the archive keeps one record per ingested name, and its
\* version is the maximum of the versions ingested under that name; a record
\* that is equal to or older than the retained one changes neither the
\* retained records, nor the package kinds, nor the provides index.
NewerWins ==
    /\ []RetainedNewest
    /\ [][StaleIngest => UNCHANGED archvars]_vars

\* an older record of a retained name has been ingested after a newer one,
\* with another package kind and other provides
NewerWinsWitness ==
    \E i, j \in 1..Len(ingested) :
       /\ i < j
       /\ IsBinary(ingested[i]) /\ IsBinary(ingested[j])
       /\ ingested[i].indextype # ingested[j].indextype
       /\ ingested[i].section.Package = ingested[j].section.Package
       /\ ingested[i].section.Provides # ingested[j].section.Provides
       /\ ingested[j].section.Version <= ingested[i].section.Version

\* C18 (provides index order): every name that is a real binary package and
\* is provided by another package is the first element of its own list of
\* providers, in whatever order the package and its providers were ingested.
ProvidesSelfFirst ==
    \A v \in DOMAIN provides \cap DOMAIN packages :
       (\E i \in 1..Len(provides[v]) : provides[v][i] # v)
          => provides[v][1] = v

-----------------------------------------------------------------------------
(* Properties of the seed structure.                                       *)

\* the names reached from the names of S in at most k steps of declared
\* inheritance
RECURSIVE Reach(_, _)
Reach(S, k) ==
    IF k = 0 THEN S
    ELSE Reach(S \cup UNION {SeqToSet(structure.original_inherit[m]) : m \in S},
               k - 1)

DeclaredAncestors(n) ==
    Reach(SeqToSet(structure.original_inherit[n]),
          Cardinality(DOMAIN structure.original_inherit))

\* C17 (inheritance expansion): once the structure is built, the inherit
\* list of every seed holds exactly the seeds reached from it through the
\* declared inheritance, each of them once, and every seed of the list
\* comes after all of its own ancestors.
InheritanceExpanded ==
    pc.at = "built" =>
       \A n \in DOMAIN structure.inherit :
          LET l == structure.inherit[n]
          IN /\ SeqToSet(l) = DeclaredAncestors(n)
             /\ \A i, j \in 1..Len(l) : i # j => l[i] # l[j]
             /\ \A i \in 1..Len(l) :
                   \A a \in DeclaredAncestors(l[i]) :
                      \E j \in 1..(i - 1) : l[j] = a

\* ship inherits desktop, desktop inherits base, and the list of ship has
\* become [base, desktop]
InheritanceExpandedWitness ==
    /\ pc.at = "built"
    /\ {"base", "desktop", "ship"} \subseteq DOMAIN structure.inherit
    /\ structure.original_inherit["ship"] = <<"desktop">>
    /\ structure.original_inherit["desktop"] = <<"base">>
    /\ structure.inherit["ship"] = <<"base", "desktop">>

\* the kinds of lines of a structure file
IsComment(l) == l # <<>> /\ startswith(l[1], "#")

IsDirective(l) == l # <<>> /\ ~IsComment(l)

IsSeedLine(l) == IsDirective(l) /\ endswith(l[1], ":")

IsInclude(l) == IsDirective(l) /\ l[1] = "include"

IsFeature(l) == IsDirective(l) /\ l[1] = "feature"

\* the words after the first of every line of ls, in order
RECURSIVE Arguments(_)
Arguments(ls) ==
    IF ls = <<>> THEN <<>> ELSE Tail(ls[1]) \o Arguments(Tail(ls))

\* C19 (one structure file): a structure file that has been parsed gives
\* seed_order the names of its seed lines in file order, inherit the
\* declared parents of every seed (of its last line, when a name has
\* several), lines its seed lines in order, branches the own branch and
\* then the branches of its include lines in order, and features the flags
\* of its feature lines; without its blank lines and #-lines the file
\* parses to the same.
FileParsed ==
    (parsed.branches # <<>> /\ ~parsed.raised) =>
       LET f == seedbase["ubuntu"]
           sl == SelectSeq(f, IsSeedLine)
       IN /\ parsed.seed_order = [i \in 1..Len(sl) |-> LineName(sl[i])]
          /\ DOMAIN parsed.inherit = {LineName(sl[i]) : i \in 1..Len(sl)}
          /\ \A i \in 1..Len(sl) :
                (\A j \in (i + 1)..Len(sl) : LineName(sl[j]) # LineName(sl[i]))
                   => parsed.inherit[LineName(sl[i])] = Tail(sl[i])
          /\ parsed.lines = sl
          /\ parsed.branches =
                <<"ubuntu">> \o Arguments(SelectSeq(f, IsInclude))
          /\ parsed.features =
                UNION {SeqToSet(Tail(f[i])) :
                          i \in {k \in 1..Len(f) : IsFeature(f[k])}}
          /\ parsed = SingleSeedStructure("ubuntu", SelectSeq(f, IsDirective))

\* the file with every kind of line has been parsed
FileParsedWitness ==
    /\ seedbase["ubuntu"] = MixedFile
    /\ parsed.seed_order = <<"base", "desktop">>
    /\ parsed.inherit["desktop"] = <<"base">>
    /\ parsed.lines = << <<"base:">>, <<"desktop:", "base">> >>
    /\ parsed.branches = <<"ubuntu", "other">>
    /\ parsed.features = {"follow-recommends"}

-----------------------------------------------------------------------------
(* Properties of a germination run.                                        *)

Key(seedname) == _make_seed_name(structure.branch, seedname)

\* grow(structure) has returned
Grown == pc.at = "grown"

\* priority of a recorded reason <<why, build_tree, recommends>>: smaller wins
ReasonRank(reason) ==
    (IF reason[2] THEN 2 ELSE 0) + (IF reason[3] THEN 1 ELSE 0)

\* positions in the growth order of the seeds that recorded a reason for p
Holders(p) ==
    {i \in 1..Len(output.seednames) :
        p \in DOMAIN seeds[Key(output.seednames[i])].reasons}

\* the earliest of the best-priority reasons recorded for p in the seeds
BestReason(p) ==
    LET rank(i) == ReasonRank(seeds[Key(output.seednames[i])].reasons[p])
        i == CHOOSE k \in Holders(p) :
                \A j \in Holders(p) :
                    rank(k) < rank(j) \/ (rank(k) = rank(j) /\ k <= j)
    IN seeds[Key(output.seednames[i])].reasons[p]

\* C9 (provenance): after grow every package of the global all set has an
\* all-reasons entry; it is the best-priority reason recorded for the
\* package in the seeds (dependency tree before build tree, then dependency
\* before recommendation), and among equally good ones the earliest.
Provenance ==
    Grown =>
      \A p \in output.all :
         /\ p \in DOMAIN output.all_reasons
         /\ Holders(p) # {}
         /\ output.all_reasons[p] = BestReason(p)

\* a package has reasons of different priority or origin in two seeds
ProvenanceWitness ==
    /\ Grown
    /\ \E p \in output.all : \E i, j \in Holders(p) :
         LET ri == seeds[Key(output.seednames[i])].reasons[p]
             rj == seeds[Key(output.seednames[j])].reasons[p]
         IN /\ i < j
            /\ ReasonRank(ri) = ReasonRank(rj)
            /\ ri # rj
    /\ \E p \in output.all : \E i, j \in Holders(p) :
         /\ i < j
         /\ ReasonRank(seeds[Key(output.seednames[j])].reasons[p])
              < ReasonRank(seeds[Key(output.seednames[i])].reasons[p])


\* the growth of seed sk finishes in this step
FinishesGrowing(sk) ==
    /\ sk \in DOMAIN seeds /\ ~seeds[sk].grown
    /\ sk \in DOMAIN seeds' /\ seeds'[sk].grown

\* C10 (topological growth): the step that grows a seed S starts from a
\* state in which every seed of inherit[S] is planted and marked grown,
\* whether plant_seeds was given a list of seeds to limit the structure to
\* or not.
TopologicalGrowth ==
    [][\A sk \in DOMAIN seeds :
          FinishesGrowing(sk) =>
             \A i \in SeqToSet(structure.inherit[seeds[sk].name]) :
                /\ Key(i) \in DOMAIN seeds
                /\ seeds[Key(i)].grown]_vars

\* a limited structure has been grown, an inheriting seed after the seeds
\* it inherits from
TopologicalGrowthWitness ==
    /\ Grown
    /\ Len(structure.names) < Len(structure.seed_order)
    /\ \E sk \in DOMAIN seeds :
         /\ seeds[sk].grown
         /\ Len(structure.inherit[seeds[sk].name]) >= 1

\* the packages a seed text lists as plain entries
Listed(seedname) ==
    {structure.texts[seedname][i].arg : i \in
        {k \in 1..Len(structure.texts[seedname]) :
            structure.texts[seedname][k] = Entry(structure.texts[seedname][k].arg)}}

\* the seeds are planted and no step of grow has raised
Planted == pc.at \in {"grow", "grown"}

\* C2 (stratification): once the seeds are planted, and during and after
\* grow, a literal entry of a seed is a literal entry of no seed that
\* inherits from it.
Stratification ==
    Planted =>
      \A sk \in DOMAIN seeds : \A lk \in SeqToSet(_strictly_outer_seeds(State, sk)) :
         SeqToSet(seeds[sk].entries) \cap SeqToSet(seeds[lk].entries) = {}

\* a package listed by a seed and by a seed inheriting from it is an entry
\* of the inner one, and a package listed by an outer seed only has been
\* promoted out of it
StratificationWitness ==
    /\ Grown
    /\ \E sk \in DOMAIN seeds : \E lk \in SeqToSet(_strictly_outer_seeds(State, sk)) :
         \E p \in Listed(seeds[sk].name) \cap Listed(seeds[lk].name) :
            InSeq(p, seeds[sk].entries)
    /\ \E sk \in DOMAIN seeds : \E lk \in SeqToSet(_strictly_outer_seeds(State, sk)) :
         \E p \in Listed(seeds[lk].name) \ Listed(seeds[sk].name) :
            p \in seeds[sk].depends /\ ~InSeq(p, seeds[lk].entries)


\* the structure "base", "desktop: base" of the scenarios, fully planted
TwoSeeds == structure.names = <<"base", "desktop">>

BlacklistError(p) == \E e \in errors : e[1] = "blacklisted" /\ e[2] = p

InNoSeed(p) ==
    /\ p \notin output.all
    /\ \A sk \in DOMAIN seeds :
         /\ ~InSeq(p, seeds[sk].entries)
         /\ ~InSeq(p, seeds[sk].recommends_entries)
         /\ p \notin seeds[sk].depends
         /\ p \notin seeds[sk].build_depends

Wanted(seedname, q) ==
    /\ q \in Listed(seedname) \cap DOMAIN packages
    /\ q \notin DOMAIN hints
    /\ ~_is_pruned(State, Key(seedname), q)
    /\ \A lk \in DOMAIN seeds : q \notin seeds[lk].blacklist

get_full(seedname) ==
    SeqToSet(seeds[Key(seedname)].entries)
    \cup SeqToSet(seeds[Key(seedname)].recommends_entries)
    \cup seeds[Key(seedname)].depends

\* grow(structure) has returned or has raised
GrowOver == pc.at \in {"grown", "raised"}

\* C4 (rescue scenario S6): desktop inherits base and has the header
\* base-include: lib*; the source foo, selected on the runtime side of base,
\* builds libfoo and foo-tools, which no seed has selected before desktop
\* grows.  Then grow returns without raising, libfoo is in desktop and
\* foo-tools is not, and libfoo is an entry of no seed that inherits from
\* desktop.
RescueS6 ==
    (/\ GrowOver
     /\ Key("desktop") \in DOMAIN seeds
     /\ InSeq("base", structure.inherit["desktop"])
     /\ \E i \in 1..Len(structure.texts["desktop"]) :
           structure.texts["desktop"][i] = Header("include", "base", <<"lib*">>)
     /\ "foo" \in seeds[Key("base")].not_build_srcs
     /\ {"libfoo", "foo-tools"} \cap seeds[Key("base")].build = {}
     /\ {"libfoo", "foo-tools"}
           \cap (Listed("desktop") \cup DOMAIN hints) = {})
    => /\ Grown
       /\ "libfoo" \in get_full("desktop")
       /\ "foo-tools" \notin get_full("desktop")
       /\ \A lk \in SeqToSet(_strictly_outer_seeds(State, Key("desktop"))) :
             ~InSeq("libfoo", seeds[lk].entries)

\* C8 (kernel-version pruning): after grow, a package with a kernel version
\* that is an entry, a recommended entry, a dependency or a build-dependency
\* of a seed with a kernel-version filter has a kernel version of the
\* filter.
KernelPruning ==
    Grown =>
      \A sk \in DOMAIN seeds :
         seeds[sk].di_kernel_versions # {} =>
            \A p \in SeqToSet(seeds[sk].entries)
                     \cup SeqToSet(seeds[sk].recommends_entries)
                     \cup seeds[sk].depends \cup seeds[sk].build_depends :
               packages[p].KernelVersion # "" =>
                  packages[p].KernelVersion \in seeds[sk].di_kernel_versions


\* the alternative groups of the Pre-Depends and Depends of a package
DependGroups(a) == packages[a].PreDepends \o packages[a].Depends

\* the packages _already_satisfied would accept for an atom of package a
TryList(sk, a, atom) ==
    IF _allowed_virtual_dependency(a, atom[3]) /\ atom[1] \in DOMAIN provides
    THEN SeqToSet(RealList(State, sk, a, atom[1], FALSE))
    ELSE IF /\ _check_versioned_dependency(atom[1], atom[2], atom[3])
            /\ _allowed_dependency(State, a, atom[1], sk, FALSE)
    THEN {atom[1]}
    ELSE {}

\* the named package and the providers of the name of an atom
Alternatives(atom) ==
    {atom[1]} \cup (IF atom[1] \in DOMAIN provides
                    THEN SeqToSet(provides[atom[1]]) ELSE {})

GroupAlternatives(group) ==
    UNION {Alternatives(group[k]) : k \in 1..Len(group)}

StrictlyInner(sk) == {Key(i) : i \in SeqToSet(structure.inherit[seeds[sk].name])}

\* group g of package a is met by the runtime side of a seed that sk
\* inherits from
SatisfiedInside(sk, a, g) ==
    \E k \in 1..Len(DependGroups(a)[g]) :
       \E c \in TryList(sk, a, DependGroups(a)[g][k]) :
          \E i \in StrictlyInner(sk) : c \in seeds[i].not_build

\* c was added to the depends of sk as the choice for group g of package a
AddedFor(sk, a, g, c) ==
    /\ c \in GroupAlternatives(DependGroups(a)[g])
    /\ \A h \in 1..Len(DependGroups(a)) :
          h # g => c \notin GroupAlternatives(DependGroups(a)[h])
    /\ c \in seeds[sk].depends
    /\ c \in DOMAIN seeds[sk].reasons
    /\ seeds[sk].reasons[c] = <<<<"Depends", a>>, FALSE, FALSE>>

NothingAddedWhenSatisfied ==
    Grown =>
      \A sk \in DOMAIN seeds : \A a \in DOMAIN packages :
         \A g \in 1..Len(DependGroups(a)) :
            SatisfiedInside(sk, a, g) =>
               \A c \in DOMAIN packages : ~AddedFor(sk, a, g, c)

InnerEntriesKept ==
    \A sk \in DOMAIN seeds :
       FinishesGrowing(sk) =>
          \A i \in StrictlyInner(sk) :
             /\ seeds'[i].entries = seeds[i].entries
             /\ seeds'[i].recommends_entries = seeds[i].recommends_entries

\* C5 (alternative already satisfied by an inner seed): when a package
\* that satisfies an alternative of a dependency group of package a (the
\* named package in a version the atom accepts, or a provider of a virtual
\* alternative, allowed as a dependency of a in S) is selected on the
\* runtime side of a seed that S inherits from, grow adds no alternative of
\* that group to S.depends on behalf of a, and growing S leaves the entries
\* of the seeds it inherits from as they are.
AlternativeSatisfied ==
    /\ []NothingAddedWhenSatisfied
    /\ [][InnerEntriesKept]_vars

\* base lists y and postfix, desktop lists a (x | y) and mailx
\* (mail-transport-agent): both stay entries of base, nothing is added
AlternativeSatisfiedWitness ==
    /\ Grown /\ TwoSeeds
    /\ {"y", "postfix"} \subseteq SeqToSet(seeds[Key("base")].entries)
    /\ {"a", "mailx"} \subseteq SeqToSet(seeds[Key("desktop")].entries)
    /\ SatisfiedInside(Key("desktop"), "a", 1)
    /\ SatisfiedInside(Key("desktop"), "mailx", 1)
    /\ seeds[Key("desktop")].depends \cap {"x", "y", "postfix", "exim4"} = {}


\* seedname lists P and nothing else is seeded or hinted
SoleEntry(seedname, P) ==
    /\ DOMAIN hints = {}
    /\ structure.features = {}
    /\ \A n \in SeqToSet(structure.seed_order) :
          structure.texts[n] = IF n = seedname THEN <<Entry(P)>> ELSE <<>>

\* the Depends of P has a group that names the package D and nothing else
DependsOn(P, D) ==
    /\ D \in DOMAIN packages
    /\ packagetype[D] = packagetype[P]
    /\ \E g \in 1..Len(packages[P].Depends) : packages[P].Depends[g] = <<Atom(D)>>

\* the groups of the dependency and build-dependency fields of a package
AllGroups(q) ==
    packages[q].PreDepends \o packages[q].Depends
    \o (IF packages[q].Source \in DOMAIN sources
        THEN sources[packages[q].Source].BuildDepends
             \o sources[packages[q].Source].BuildDependsIndep
        ELSE <<>>)

Names(groups) ==
    UNION {{groups[g][k][1] : k \in 1..Len(groups[g])} : g \in 1..Len(groups)}

\* the packages reachable from the packages of R
RECURSIVE ReachFrom(_)
ReachFrom(R) ==
    LET next == R \cup (UNION {Names(AllGroups(q)) : q \in R} \cap DOMAIN packages)
    IN IF next = R THEN R ELSE ReachFrom(next)

\* every package reachable from P is a deb without recommendations whose
\* groups each name one existing package, without a version
Plain(P) ==
    \A q \in ReachFrom({P}) :
       /\ packagetype[q] = "deb"
       /\ packages[q].Recommends = <<>>
       /\ \A g \in 1..Len(AllGroups(q)) :
             /\ Len(AllGroups(q)[g]) = 1
             /\ AllGroups(q)[g][1][1] \in DOMAIN packages
             /\ AllGroups(q)[g][1][3] = ""

\* C6 (trivial depend, S1): when a seed lists the package P and nothing
\* else is seeded, and the Depends of P names an existing package D, then
\* after grow P is still the entry of the seed, D is in its depends, both
\* are in its full output and in all; and when nothing reachable from P has
\* alternatives, versions, virtual names or recommendations, all is
\* exactly the set of packages reachable from P.
TrivialDepend ==
    Grown =>
      \A sk \in DOMAIN seeds : \A P, D \in DOMAIN packages :
         (SoleEntry(seeds[sk].name, P) /\ DependsOn(P, D)) =>
            /\ seeds[sk].entries = <<P>>
            /\ D \in seeds[sk].depends
            /\ {P, D} \subseteq get_full(seeds[sk].name)
            /\ {P, D} \subseteq output.all
            /\ Plain(P) => output.all = ReachFrom({P})

\* scenario S1: base lists hello, which depends on hello-dependency
TrivialDependWitness ==
    /\ Grown
    /\ SoleEntry("base", "hello")
    /\ DependsOn("hello", "hello-dependency")
    /\ Plain("hello")
    /\ seeds[Key("base")].depends = {"hello-dependency"}
    /\ output.all = {"hello", "hello-dependency"}


\* the packages that satisfy an atom: the named one in an accepted version,
\* and the providers of an unversioned name
Satisfiers(atom) ==
    (IF _check_versioned_dependency(atom[1], atom[2], atom[3])
     THEN {atom[1]} ELSE {})
    \cup (IF atom[3] = "" /\ atom[1] \in DOMAIN provides
          THEN SeqToSet(provides[atom[1]]) \cap DOMAIN packages ELSE {})

\* an atom of group g of p is satisfied by an entry or a dependency of a
\* seed of inner_seeds(sk)
SatisfiedIn(sk, p, g) ==
    \E k \in 1..Len(DependGroups(p)[g]) :
       \E c \in Satisfiers(DependGroups(p)[g][k]) :
          \E i \in SeqToSet(_inner_seeds(State, sk)) :
             \/ InSeq(c, seeds[i].entries)
             \/ InSeq(c, seeds[i].recommends_entries)
             \/ c \in seeds[i].depends

\* the atom names no package in an accepted version that may be a
\* dependency of p in sk
Fails(sk, p, atom) ==
    \/ ~_check_versioned_dependency(atom[1], atom[2], atom[3])
    \/ ~_allowed_dependency(State, p, atom[1], sk, FALSE)

Chosen(sk, p, atom) ==
    LET reallist == RealList(State, sk, p, atom[1], FALSE)
        kv == seeds[sk].di_kernel_versions
    IN IF ~Fails(sk, p, atom) THEN {atom[1]}
       ELSE IF ~(_allowed_virtual_dependency(p, atom[3])
                 /\ atom[1] \in DOMAIN provides)
               \/ reallist = <<>>
       THEN {}
       ELSE IF packages[reallist[1]].KernelVersion # ""
       THEN {d \in SeqToSet(reallist) :
                kv = {} \/ packages[d].KernelVersion \in kv}
       ELSE {reallist[1]}

Blacklisted(sk, c) ==
    \E lk \in SeqToSet(_outer_seeds(State, sk)) : c \in seeds[lk].blacklist

\* p was accepted by _add_package in the dependency tree of sk
Accepted(sk, p) ==
    p \in DOMAIN seeds[sk].reasons /\ ~seeds[sk].reasons[p][2]

-----------------------------------------------------------------------------
(* C11: the extras are a fixed point.                                      *)

\* add_extras has returned
ExtrasDone == pc.at = "extras"

\* the test "pkg in self._hints and self._hints[pkg] != 'extra'"
HintedElsewhere(p) == p \in DOMAIN hints /\ hints[p] # "extra"

\* a binary of the archive that add_extras could have taken and did not
LeftOver(p) ==
    /\ p \notin output.all
    /\ packages[p].Source \in output.all_srcs
    /\ ~HintedElsewhere(p)

\* the fixed point as the specification words it: the source of a binary
\* is the one its Packages stanza names
FixedPointExtrasAsStated ==
    ExtrasDone => \A p \in DOMAIN packages : ~LeftOver(p)

\* C11 (fixed-point extras): after add_extras no binary package that its
\* source package lists among its binaries is absent from all while that
\* source is in all_srcs, unless it is hinted to a seed other than extra.
FixedPointExtras ==
    ExtrasDone =>
      \A p \in DOMAIN packages :
         (/\ packages[p].Source \in DOMAIN sources
          /\ InSeq(p, sources[packages[p].Source].Binaries)) => ~LeftOver(p)

\* the extra seed took packages, one of them for a source that only an
\* earlier extra brought in
FixedPointExtrasWitness ==
    /\ ExtrasDone
    /\ \E p, q \in SeqToSet(seeds[Key("extra")].entries) :
          /\ p # q
          /\ output.all_reasons[q][1] = <<"Generated by", packages[q].Source>>
          /\ packages[q].Source \in seeds[Key("extra")].build_srcs
          /\ packages[p].Source # packages[q].Source
          /\ \E d \in seeds[Key("extra")].depends :
                packages[d].Source = packages[q].Source

-----------------------------------------------------------------------------
(* C12: running the rescue again.                                          *)

\* the seed whose growth has just ended; the last thing grow did for it was
\* _rescue_includes(structure, seedname, "extra", build_tree=False)
JustGrown == output.seednames[pc.i - 1]

\* C12 (rescue idempotence): once grow has run the rescue from "extra" for
\* a seed, running it again for the same seed, rescue seed and build_tree
\* flag leaves the state as it is.
RescueIdempotence ==
    (pc.at = "grow" /\ pc.i > 1) =>
      Call("_rescue_includes", <<State, JustGrown, "extra", FALSE>>) = State

-----------------------------------------------------------------------------
(* C13: a grown seed is frozen.                                            *)

\* the state of a seed that GerminatedSeed.copy shares with its copies
FrozenFields(seed) ==
    <<seed.entries, seed.recommends_entries, seed.depends, seed.build_depends,
      seed.sourcepkgs, seed.build_sourcepkgs, seed.build, seed.not_build,
      seed.build_srcs, seed.not_build_srcs, seed.reasons>>

\* the seed the final build-tree rescue of grow works on
RescueTarget ==
    IF pc.i > Len(output.seednames) THEN SeqToSet(GetSupported(State)) ELSE {}

\* C13 (frozen after growth): a step of grow, be it the growth of a later
\* seed or the final build-tree rescue, changes nothing of a seed that is
\* marked grown, the seed the final rescue adds to excepted.
FrozenAfterGrowth ==
    [][pc.at = "grow" =>
         \A sk \in DOMAIN seeds \ RescueTarget :
            seeds[sk].grown =>
               FrozenFields(seeds'[sk]) = FrozenFields(seeds[sk])]_vars

-----------------------------------------------------------------------------
(* C14: hints.                                                             *)

\* the seeds are planted: grow, add_extras or their end
AfterPlanting == pc.at \in {"grow", "grown", "extras"}

\* C14 (hints take precedence): once the seeds are planted, a package
\* hinted to a seed is an entry or a recommended entry of no other seed,
\* the extra seed of add_extras included.
HintsPrecedence ==
    AfterPlanting =>
      \A p \in DOMAIN hints : \A sk \in DOMAIN seeds :
         seeds[sk].name # hints[p] =>
            /\ ~InSeq(p, seeds[sk].entries)
            /\ ~InSeq(p, seeds[sk].recommends_entries)

-----------------------------------------------------------------------------
(* C15: package kinds along the recorded dependency edges.                 *)

\* the reason a seed remembers for a package: <<kind of edge, depender>>
Why(sk, d) == seeds[sk].reasons[d][1]

-----------------------------------------------------------------------------
(* C16: the extra seed.                                                    *)

\* how often a name occurs in a list of names
Occurrences(name, list) == Cardinality({i \in 1..Len(list) : list[i] = name})

\* C16 (extra seed): after add_extra the seed extra inherits from exactly
\* the other seeds of the working set and not from itself: it is once among
\* its own inner seeds and no seed is strictly outside it.
ExtraSeedAcyclic ==
    ExtrasDone =>
      /\ InSeq("extra", structure.names)
      /\ structure.inherit["extra"]
            = SelectSeq(structure.names, LAMBDA s : s # "extra")
      /\ Occurrences("extra", inner_seeds(structure, "extra")) = 1
      /\ strictly_outer_seeds(structure, "extra") = <<>>

-----------------------------------------------------------------------------
(* C20: a planted seed is reused for another structure by its text.        *)

\* a step that plants the seeds of the second structure
Replanting == pc.at # "replanted" /\ pc'.at = "replanted"

\* the seed planted for the second structure is a copy of a seed planted
\* before, which copy marks as grown
Reused(n) == seeds'[_make_seed_name("other", n)].grown

\* C20 (seed equality): planting a second structure reuses a seed planted
\* for the first only when the two seeds have the same text, never when
\* their texts differ.
ReuseFollowsText ==
    [][Replanting =>
          \A n \in SeqToSet(output'.seednames) :
             Reused(n) => structure'.texts[n] = structure.texts[n]]_vars

-----------------------------------------------------------------------------
(* C21: seeds defined in several branches of a merged structure.           *)

MainFile == SingleSeedStructure("ubuntu", seedbase["ubuntu"])

IncludedFile == SingleSeedStructure("other", seedbase["other"])

\* the branch ubuntu includes the branch other and both define the seed,
\* each on one line
Overridden(n) ==
    /\ InSeq("other", MainFile.branches)
    /\ Occurrences(n, MainFile.seed_order) = 1
    /\ Occurrences(n, IncludedFile.seed_order) = 1

LinesOf(n) ==
    {i \in 1..Len(structure.lines) : LineName(structure.lines[i]) = n}

\* C21 (merge override): in a structure merged through include, a seed
\* defined by the including and by the included branch has the declared
\* inheritance of the including branch, one line among the merged lines,
\* placed after the lines of the seeds that only the included branch
\* defines, and one position in the merged seed order.
MergeOverride ==
    pc.at = "built" =>
       \A n \in DOMAIN structure.original_inherit :
          Overridden(n) =>
             /\ structure.original_inherit[n] = MainFile.inherit[n]
             /\ Cardinality(LinesOf(n)) = 1
             /\ \A m \in DOMAIN structure.original_inherit :
                   m \notin DOMAIN MainFile.inherit =>
                      \A i \in LinesOf(m), j \in LinesOf(n) : i < j
             /\ Occurrences(n, structure.seed_order) = 1

-----------------------------------------------------------------------------
(* C22: blacklisted packages are dropped.                                  *)

\* the packages blacklisted for a seed: those of its own blacklist and of
\* the blacklists of the seeds outside it
BlacklistedFor(sk) ==
    UNION {seeds[o].blacklist : o \in SeqToSet(_outer_seeds(State, sk))}

SupportedBlacklist ==
    UNION {seeds[o].blacklist : o \in SeqToSet(GetSupported(State))}

\* C22 (blacklisted packages are dropped): after grow no seed has, among
\* its entries, recommended entries or dependencies, a package of its own
\* blacklist or of the blacklist of a seed outside it, and no seed has among
\* its build-dependencies a package of the blacklist of the supported seed.
BlacklistedDropped ==
    Grown =>
       \A sk \in DOMAIN seeds :
          /\ BlacklistedFor(sk) \cap SeqToSet(seeds[sk].entries) = {}
          /\ BlacklistedFor(sk) \cap SeqToSet(seeds[sk].recommends_entries) = {}
          /\ BlacklistedFor(sk) \cap seeds[sk].depends = {}
          /\ SupportedBlacklist \cap seeds[sk].build_depends = {}

\* ---- C23: following Recommends ----

\* whether the claim has seed sk follow the Recommends of package p
MayFollow(sk, p) ==
    /\ \/ "follow-recommends" \in seeds[sk].features
       \/ "follow-recommends" \in structure.features
       \/ packages[p].Section = "metapackages"
    /\ "no-follow-recommends" \notin seeds[sk].features

\* the packages that seed sk holds because of a Recommends field of p
RecommendedBy(sk, p) ==
    {d \in DOMAIN seeds[sk].reasons : Why(sk, d) = <<"Recommends", p>>}

\* C23: after grow, a package is in a seed because of the Recommends field
\* of a package P only if the seed may follow the Recommends of P: the seed
\* or the structure has the feature follow-recommends or P is of section
\* metapackages, and the seed does not have the feature
\* no-follow-recommends, which always wins
RecommendsFollowed ==
    Grown => \A sk \in DOMAIN seeds : \A p \in DOMAIN packages :
                RecommendedBy(sk, p) # {} => MayFollow(sk, p)

\* ---- C24: runtime usage wins over build-only usage ----

\* C24: after grow, a source package that is in the sourcepkgs of some seed
\* is in the build_sourcepkgs of no seed
RuntimeWins ==
    Grown => \A sk \in DOMAIN seeds : \A bk \in DOMAIN seeds :
                seeds[sk].sourcepkgs \cap seeds[bk].build_sourcepkgs = {}

\* ---- C25: build-tree processing does not rob outer seeds ----

\* the dependency groups of package p that are processed as a build tree:
\* the Build-Depends and Build-Depends-Indep of its source (build_depend
\* set), and its own Pre-Depends and Depends when p is itself in the build
\* tree (build_tree set); each with its build_depend and build_tree flags
BuildTrees(p) ==
    LET src == packages[p].Source
    IN (IF src \in DOMAIN sources
        THEN {<<g, TRUE, FALSE>> :
                g \in SeqToSet(sources[src].BuildDepends)
                      \cup SeqToSet(sources[src].BuildDependsIndep)}
        ELSE {})
       \cup {<<g, FALSE, TRUE>> :
               g \in SeqToSet(packages[p].PreDepends)
                     \cup SeqToSet(packages[p].Depends)}

\* the state after _add_dependency_tree has processed group t of p in sk
AfterTree(sk, p, t) ==
    Call("_add_dependency_tree",
         <<State, sk, p, <<t[1]>>, t[2], FALSE, t[3], FALSE>>)

LiteralOf(st, l, d) ==
    InSeq(d, st.seeds[l].entries) \/ InSeq(d, st.seeds[l].recommends_entries)

\* the strictly outer seeds of sk that list the first alternative of group
\* t of p, when that alternative is a real package that may be promoted
OuterLiterals(sk, p, t) ==
    LET d == t[1][1]
    IN IF /\ _check_versioned_dependency(d[1], d[2], d[3])
          /\ _allowed_dependency(State, p, d[1], sk, t[2])
          /\ \A k \in 1..Len(t[1]) :
                ~_already_satisfied(State, sk, p, t[1][k], t[2], TRUE)
       THEN {l \in SeqToSet(_strictly_outer_seeds(State, sk)) :
               LiteralOf(State, l, d[1])}
       ELSE {}

\* the seed that grow is about to process
Growing == pc.at = "grow" /\ pc.i <= Len(output.seednames)

NextSeed == Key(output.seednames[pc.i])

\* the processing of a build-dependency tree in the seed being grown
\* removes no literal entry and no recommend from any seed
BuildTreeKeepsLiterals ==
    Growing =>
       \A p \in DOMAIN packages : \A t \in BuildTrees(p) :
          LET after == AfterTree(NextSeed, p, t)
          IN \A k \in DOMAIN seeds :
                /\ after.seeds[k].entries = seeds[k].entries
                /\ after.seeds[k].recommends_entries = seeds[k].recommends_entries

\* a candidate found as a literal of a strictly outer seed is added to the
\* build_depends of the current seed and stays a literal of the outer seed
BuildTreeAddsCandidate ==
    Growing =>
       \A p \in DOMAIN packages : \A t \in BuildTrees(p) :
          OuterLiterals(NextSeed, p, t) # {} =>
             LET after == AfterTree(NextSeed, p, t)
             IN /\ t[1][1][1] \in after.seeds[NextSeed].build_depends
                /\ \A l \in OuterLiterals(NextSeed, p, t) :
                      LiteralOf(after, l, t[1][1][1])

\* C25 as stated: build-tree processing removes no literal from any seed,
\* and a candidate found as a literal of a strictly outer seed is added to
\* the build_depends of the current seed and stays a literal of the outer
\* seed
BuildTreeDoesNotRob == BuildTreeKeepsLiterals /\ BuildTreeAddsCandidate

\* C25, amended: build-tree processing removes no literal from any seed; a
\* candidate found as a literal of a strictly outer seed stays a literal of
\* that seed, and it is added to the build_depends of the current seed
\* unless the supported seed blacklists it
BuildTreeLeavesOuterSeeds ==
    [](/\ BuildTreeKeepsLiterals
       /\ Growing =>
             \A p \in DOMAIN packages : \A t \in BuildTrees(p) :
                OuterLiterals(NextSeed, p, t) # {} =>
                   LET after == AfterTree(NextSeed, p, t)
                   IN /\ t[1][1][1] \notin SupportedBlacklist =>
                            t[1][1][1] \in after.seeds[NextSeed].build_depends
                      /\ \A l \in OuterLiterals(NextSeed, p, t) :
                            LiteralOf(after, l, t[1][1][1]))

\* grow has put a literal of a strictly outer seed into the build_depends
\* of a seed, as a build-dependency, and the outer seed still lists it
BuildTreeLeavesOuterSeedsWitness ==
    /\ Grown
    /\ \E sk \in DOMAIN seeds : \E d \in seeds[sk].build_depends :
          /\ Why(sk, d)[1] = "Build-Depend"
          /\ \E l \in SeqToSet(_strictly_outer_seeds(State, sk)) :
                LiteralOf(State, l, d)

\* ---- C26: the flags _add_dependency hands to _add_package ----

\* package d is recorded on the runtime side of seed sk: it is in not_build
\* of the seed or of an inner seed, and its reason in the seed is flagged
\* as coming from the dependency tree
OnRuntimeSide(sk, d) ==
    /\ \E i \in SeqToSet(_inner_seeds(State, sk)) : d \in seeds[i].not_build
    /\ ~seeds[sk].reasons[d][2]

\* C26: every dependency that is added to the depends of a seed is
\* recorded on the runtime side by _add_package, after grow and also after
\* add_extras, which adds its packages with second_class set
DependsOnRuntimeSide ==
    (Grown \/ ExtrasDone) =>
       \A sk \in DOMAIN seeds : \A d \in seeds[sk].depends :
          d \in DOMAIN seeds[sk].reasons => OnRuntimeSide(sk, d)

\* ---- C27: every listed package has a reason ----

\* the packages that the lists of seed sk name
ListedIn(sk) ==
    SeqToSet(seeds[sk].entries) \cup SeqToSet(seeds[sk].recommends_entries)
    \cup seeds[sk].depends \cup seeds[sk].build_depends

\* C27: after grow and after add_extras, every package in the entries,
\* recommends_entries, depends or build_depends of a seed has a reason in
\* the seed and in the all-reasons map and is in the global all set
ListedHaveReasons ==
    (Grown \/ ExtrasDone) =>
       \A sk \in DOMAIN seeds : \A p \in ListedIn(sk) :
          /\ p \in DOMAIN seeds[sk].reasons
          /\ p \in DOMAIN output.all_reasons
          /\ p \in output.all

\* ---- C28: promotion is all-or-nothing ----

\* the alternatives of the Pre-Depends, Depends and Recommends of p
RuntimeAlternatives(p) ==
    UNION {SeqToSet(g) : g \in SeqToSet(packages[p].PreDepends)
                               \cup SeqToSet(packages[p].Depends)
                               \cup SeqToSet(packages[p].Recommends)}

\* the result of a promotion attempt for alternative depend of p in sk,
\* outside the build tree
AfterPromote(sk, p, depend, close) ==
    Call("_promote_dependency",
         <<State, sk, p, depend, close, FALSE, FALSE, FALSE, FALSE>>)

\* the packages that the lists of seed l name in state st
LiteralsOf(st, l) ==
    SeqToSet(st.seeds[l].entries) \cup SeqToSet(st.seeds[l].recommends_entries)

\* the packages that a step from the present state to st takes out of the
\* entries or recommends of some seed
TakenOut(st) ==
    UNION {LiteralsOf(State, l) \ LiteralsOf(st, l) : l \in DOMAIN seeds}

\* C28: a promotion attempt in the seed being grown that removes a
\* candidate from the entries or recommends of an outer seed puts it into
\* the depends of the promoting seed and into the global all set, and an
\* attempt that returns false leaves the entries and recommends of every
\* seed unchanged
PromotionAllOrNothing ==
    Growing =>
       \A p \in DOMAIN packages : \A depend \in RuntimeAlternatives(p) :
          \A close \in BOOLEAN :
             LET r == AfterPromote(NextSeed, p, depend, close)
             IN /\ \A d \in TakenOut(r.st) :
                      /\ d \in r.st.seeds[NextSeed].depends
                      /\ d \in r.st.output.all
                /\ ~r.ret => TakenOut(r.st) = {}

\* ---- C29: the assertion of GerminatedSeed.copy ----

\* a call of plant_seeds for the second structure that comes between two
\* calls of the interface: grow has not begun, or grow is over
PlantingBetweenCalls ==
    /\ \/ pc.at \in {"grown", "extras"}
       \/ pc.at = "grow" /\ pc.i = 1
    /\ planted' # planted

\* C29: planting a second structure never fails the assertion of copy:
\* every seed that the planting reuses is grown when it is copied
CopyOfGrownOnly ==
    [][PlantingBetweenCalls => pc'.at # "raised"]_vars

\* ---- C30: termination of grow and add_extras ----

\* the state of add_extras when its loop begins
ExtrasBegin ==
    LET sk == Key("extra")
    IN [State EXCEPT
          !.structure = add_extra(@),
          !.seeds = DictSet(@, sk, GerminatedSeed("extra", structure.branch)),
          !.output.seednames = Append(@, "extra")]

\* every pass of the loop of add_extras from st on that sets found adds a
\* package to the global all set
RECURSIVE PassesAdd(_)
PassesAdd(st) ==
    LET pass == Call("ExtrasPass",
                     <<st, ExtrasPairs(sorted(st.output.all_srcs), 1), 1, FALSE>>)
    IN IF ~pass.found THEN TRUE
       ELSE /\ st.output.all \subseteq pass.st.output.all
            /\ st.output.all # pass.st.output.all
            /\ PassesAdd(pass.st)

\* grow and add_extras are over, or a call has raised
RunOver == pc.at \in {"extras", "raised"}

====
